---------------------------- MODULE Spec2Model ----------------------------
(***************************************************************************)
(* A model of the TESS full-frame-image pipeline: aperture detection       *)
(* (src/src/generate_apertures.py), flux extraction                        *)
(* (src/src/generate_astroseismic_signal.py) and the stores they share.    *)
(*                                                                         *)
(* Conventions                                                             *)
(*  - an image is a function from its pixels <<row, col>> (0-based, as     *)
(*    numpy indexes them) to integer pixel values;                         *)
(*  - real numbers are kept exact as scaled integers or as fractions       *)
(*    <<numerator, denominator>>; every scale is named where it is used;   *)
(*  - the results of library routines whose tie-breaking the source does   *)
(*    not fix (the watershed flood, the order of equal sort keys) are      *)
(*    nondeterministic choices among the outcomes the library can give.    *)
(***************************************************************************)
EXTENDS Integers, Sequences, FiniteSets, TLC

\* ------------------------------------------------------------------------
\* Generic helpers (numpy / python built-ins used by the source)
\* ------------------------------------------------------------------------

\* python max() / min() of two integers
Max2(a, b) == IF a >= b THEN a ELSE b

Min2(a, b) == IF a <= b THEN a ELSE b

\* np.max / np.min of a non-empty set of integers
SetMax(S) == CHOOSE x \in S : \A y \in S : y <= x

SetMin(S) == CHOOSE x \in S : \A y \in S : x <= y

Abs(x) == IF x < 0 THEN -x ELSE x

Range(s) == { s[i] : i \in DOMAIN s }

RECURSIVE SeqSum(_)
\* np.sum of a sequence of integers
SeqSum(s) == IF s = << >> THEN 0 ELSE Head(s) + SeqSum(Tail(s))

RECURSIVE SetSum(_, _)
\* the sum of f[x] over the finite set S
SetSum(f, S) ==
    IF S = {} THEN 0
    ELSE LET x == CHOOSE y \in S : TRUE IN f[x] + SetSum(f, S \ {x})

\* pixel order of np.argwhere / np.nonzero: row-major
PixLess(p, q) == p[1] < q[1] \/ (p[1] = q[1] /\ p[2] < q[2])

RECURSIVE RowMajor(_)
\* the pixels of S as a sequence in row-major order
RowMajor(S) ==
    IF S = {} THEN << >>
    ELSE LET p == CHOOSE x \in S : \A y \in S \ {x} : PixLess(x, y)
         IN  <<p>> \o RowMajor(S \ {p})

RECURSIVE SortedSeq(_)
\* np.unique: the integers of S in increasing order
SortedSeq(S) ==
    IF S = {} THEN << >>
    ELSE LET m == SetMin(S) IN <<m>> \o SortedSeq(S \ {m})

\* image.shape = (rows, cols) of an image given as a function on its pixels
NRows(image) == 1 + SetMax({ p[1] : p \in DOMAIN image })

NCols(image) == 1 + SetMax({ p[2] : p \in DOMAIN image })

\* the pixels of an array of shape (h, w)
Grid(h, w) == (0 .. h - 1) \X (0 .. w - 1)

\* twice np.median of the values f[x], x in the non-empty finite set S
\* (np.median averages the two middle values of an even-sized sample)
Median2(f, S) ==
    LET n      == Cardinality(S)
        vals   == { f[x] : x \in S }
        \* the k-th smallest value, counting repetitions
        kth(k) == SetMin({ v \in vals : Cardinality({ x \in S : f[x] <= v }) >= k })
    IN  IF n % 2 = 1 THEN 2 * kth((n + 1) \div 2)
        ELSE kth(n \div 2) + kth(n \div 2 + 1)

\* ------------------------------------------------------------------------
\* generate_apertures.py : clustering and segmentation
\* ------------------------------------------------------------------------

\* number of bins of np.histogram(flat, bins=100)
HIST_BINS == 100

\* flux_threshold(image) = mode + 0.8 * MAD, returned times 200 = 2 * HIST_BINS
\* so that the bin centres (odd multiples of 1/200 of the value range) and
\* 0.8 * MAD (a multiple of 1/5) are integers.
flux_threshold(image) ==
    LET P       == DOMAIN image
        lo      == SetMin({ image[p] : p \in P })
        hi      == SetMax({ image[p] : p \in P })
        \* np.histogram widens an empty range to (lo - 0.5, hi + 0.5)
        bin(v)  == IF lo = hi THEN HIST_BINS \div 2
                   ELSE IF v = hi THEN HIST_BINS - 1
                   ELSE ((v - lo) * HIST_BINS) \div (hi - lo)
        hist(k) == Cardinality({ p \in P : bin(image[p]) = k })
        bins    == { bin(image[p]) : p \in P }
        \* np.argmax: the first bin with the largest count
        amax    == SetMin({ k \in bins : \A j \in bins : hist(j) <= hist(k) })
        mode200 == IF lo = hi THEN 200 * lo + 1
                   ELSE 200 * lo + (2 * amax + 1) * (hi - lo)
        med2    == Median2(image, P)
        dev2    == [ p \in P |-> Abs(2 * image[p] - med2) ]
        mad4    == Median2(dev2, P)
    IN  mode200 + 40 * mad4

\* np.argwhere(image > threshold), as a set
high_intensity_pixels(image) ==
    LET threshold == flux_threshold(image)
    IN  { p \in DOMAIN image : 200 * image[p] > threshold }

\* DBSCAN parameters set at lines 80-81; eps = 1.5 is kept as 2 * eps = 3 and
\* compared on squared distances: d <= 1.5 iff 4 * d^2 <= 9.
EPS2 == 3

MIN_SAMPLES == 4

\* the eps-neighbourhood of p among the points P (p itself included)
Neighbourhood(p, P) ==
    { q \in P : 4 * ((p[1] - q[1]) * (p[1] - q[1]) + (p[2] - q[2]) * (p[2] - q[2]))
                    <= EPS2 * EPS2 }

IsCore(p, P) == Cardinality(Neighbourhood(p, P)) >= MIN_SAMPLES

RECURSIVE Expand(_, _, _)
\* the points one cluster takes: the seed, then every still unlabelled
\* neighbour of a core point already taken
Expand(S, P, free) ==
    LET more == { v \in free : \E q \in S : IsCore(q, P) /\ v \in Neighbourhood(q, P) }
    IN  IF more \subseteq S THEN S ELSE Expand(S \cup more, P, free)

RECURSIVE DbscanInner(_, _, _, _)
\* sklearn's dbscan_inner: the points in index order; an unlabelled core
\* point starts the next cluster, which takes what it reaches
DbscanInner(todo, P, labels, label_num) ==
    IF todo = << >> THEN labels
    ELSE LET p == Head(todo) IN
         IF labels[p] # -1 \/ ~IsCore(p, P)
         THEN DbscanInner(Tail(todo), P, labels, label_num)
         ELSE LET free  == { q \in P : labels[q] = -1 }
                  taken == Expand({p}, P, free)
              IN  DbscanInner(Tail(todo), P,
                              [ q \in P |-> IF q \in taken THEN label_num ELSE labels[q] ],
                              label_num + 1)

\* DBSCAN(eps, min_samples).fit_predict(points): a label per point, -1 = noise
fit_predict(P) == DbscanInner(RowMajor(P), P, [ q \in P |-> -1 ], 0)

\* filtered_dbscan raises ValueError when no pixel is above the threshold
filtered_dbscan_raises(image) == high_intensity_pixels(image) = {}

\* filtered_dbscan(image)[1]: the labels of the high-intensity pixels
filtered_dbscan(image) == fit_predict(high_intensity_pixels(image))

\* minimum number of foreground pixels for a split (line 173)
min_pixels_for_watershed == 8

\* scipy distance_transform_edt(patch), squared: the squared distance of a
\* foreground pixel to the nearest background pixel of the patch, 0 on the
\* background; a patch without background has no feature and scipy
\* measures from the index -1 on every axis
distance_transform_edt(patch) ==
    LET bg == { q \in DOMAIN patch : ~patch[q] }
    IN  [ p \in DOMAIN patch |->
            IF ~patch[p] THEN 0
            ELSE IF bg = {} THEN (p[1] + 1) * (p[1] + 1) + (p[2] + 1) * (p[2] + 1)
            ELSE SetMin({ (p[1] - q[1]) * (p[1] - q[1]) + (p[2] - q[2]) * (p[2] - q[2])
                          : q \in bg }) ]

\* scipy maximum_filter(dist, size=2): the window of an even size reaches one
\* index back on each axis; mode 'reflect' repeats the edge
maximum_filter(dist) ==
    [ p \in DOMAIN dist |->
        SetMax({ dist[<<r, c>>] : r \in { Max2(p[1] - 1, 0), p[1] },
                                  c \in { Max2(p[2] - 1, 0), p[2] } }) ]

\* 4-neighbours (scipy label and skimage watershed default connectivity)
Adjacent4(p, q) == Abs(p[1] - q[1]) + Abs(p[2] - q[2]) = 1

\* the four pixels next to p
Neighbours4(p) ==
    { <<p[1] - 1, p[2]>>, <<p[1] + 1, p[2]>>, <<p[1], p[2] - 1>>, <<p[1], p[2] + 1>> }

RECURSIVE Flood4(_, _, _)
\* S grown through 4-neighbours within F, `frontier` being its newest pixels
Flood4(frontier, S, F) ==
    LET more == (UNION { Neighbours4(p) : p \in frontier } \cap F) \ S
    IN  IF more = {} THEN S ELSE Flood4(more, S \cup more, F)

\* the pixels of F that are 4-connected within F to a pixel of S
Component4(S, F) == Flood4(S, S, F)

RECURSIVE LabelComponents(_, _, _)
\* scipy.ndimage.label: the 4-connected components of F numbered 1, 2, ...
\* in the raster order of their first pixel
LabelComponents(F, next, acc) ==
    IF F = {} THEN acc
    ELSE LET p    == CHOOSE x \in F : \A y \in F \ {x} : PixLess(x, y)
             comp == Component4({p}, F)
         IN  LabelComponents(F \ comp, next + 1,
                             [ q \in DOMAIN acc |-> IF q \in comp THEN next ELSE acc[q] ])

\* markers of watershed_patch (lines 113-117)
patch_markers(patch) ==
    LET dist      == distance_transform_edt(patch)
        filtered  == maximum_filter(dist)
        local_max == { p \in DOMAIN patch : dist[p] = filtered[p] /\ patch[p] }
    IN  LabelComponents(local_max, 1, [ q \in DOMAIN patch |-> 0 ])

\* skimage watershed(-dist, markers, mask=patch): every flood gives each
\* marker a 4-connected region of the mask that holds the marker; which
\* marker wins a contested pixel depends on the library's heap order, so
\* every such labelling is an outcome.  Mask pixels no flood reaches stay 0.
watershed(markers, patch) ==
    LET P       == DOMAIN patch
        fg      == { p \in P : patch[p] }
        seeds   == { p \in P : markers[p] > 0 }
        n       == SetMax({ markers[p] : p \in P })
        reached == Component4(seeds, fg)
        open    == reached \ seeds
        ok(w)   == \A k \in 1 .. n :
                     LET region == { p \in reached : w[p] = k }
                         seed   == { p \in seeds : markers[p] = k }
                     IN  Component4(seed, region) = region
    IN  { w \in { [ p \in P |-> IF p \in seeds THEN markers[p]
                                ELSE IF p \in open THEN a[p] ELSE 0 ]
                  : a \in [ open -> 1 .. n ] } : ok(w) }

\* watershed_patch without the size test of line 109
watershed_patch_any_size(task) ==
    LET patch  == task.patch
        asint  == [ p \in DOMAIN patch |-> IF patch[p] THEN 1 ELSE 0 ]
        markers == patch_markers(patch)
    IN  IF SetMax({ markers[p] : p \in DOMAIN patch }) < 2
        THEN { asint }
        ELSE watershed(markers, patch)

\* watershed_patch(args): the possible ws_result arrays of one task
watershed_patch(task) ==
    LET patch  == task.patch
        asint  == [ p \in DOMAIN patch |-> IF patch[p] THEN 1 ELSE 0 ]
        markers == patch_markers(patch)
    IN  IF Cardinality({ p \in DOMAIN patch : patch[p] }) < task.min_pixels
        THEN { asint }
        ELSE IF SetMax({ markers[p] : p \in DOMAIN patch }) < 2
        THEN { asint }
        ELSE watershed(markers, patch)

\* seg after lines 168-170: the DBSCAN label at each high-intensity pixel,
\* -1 elsewhere
initial_seg(image) ==
    LET hi     == high_intensity_pixels(image)
        labels == filtered_dbscan(image)
    IN  [ p \in DOMAIN image |-> IF p \in hi THEN labels[p] ELSE -1 ]

\* the watershed tasks of lines 189-201, one per DBSCAN label in increasing
\* order: the tight bounding box of the label and its mask inside the box
watershed_tasks(seg) ==
    LET unique_labels == SortedSeq({ seg[p] : p \in DOMAIN seg } \ {-1})
        task(l) ==
            LET members == { p \in DOMAIN seg : seg[p] = l }
                row_min == SetMin({ p[1] : p \in members })
                row_max == SetMax({ p[1] : p \in members }) + 1
                col_min == SetMin({ p[2] : p \in members })
                col_max == SetMax({ p[2] : p \in members }) + 1
            IN  [ row_min |-> row_min, row_max |-> row_max,
                  col_min |-> col_min, col_max |-> col_max,
                  patch |-> [ q \in Grid(row_max - row_min, col_max - col_min) |->
                                seg[<<row_min + q[1], col_min + q[2]>>] = l ],
                  min_pixels |-> min_pixels_for_watershed ]
    IN  [ i \in DOMAIN unique_labels |-> task(unique_labels[i]) ]

RECURSIVE compute(_)
\* dask compute(*tasks): the result tuples in task order, for every outcome
\* of the watershed calls
compute(tasks) ==
    IF tasks = << >> THEN { << >> }
    ELSE LET t == Head(tasks) IN
         { << [ row_min |-> t.row_min, row_max |-> t.row_max,
                col_min |-> t.col_min, col_max |-> t.col_max,
                ws_result |-> w ] >> \o rest
           : w \in watershed_patch(t), rest \in compute(Tail(tasks)) }

\* the results in the order the tasks completed
gather_as_completed(completed) == [ k \in DOMAIN completed |-> completed[k].res ]

\* what compute(*tasks) returns once every task has completed: the results
\* in the order of its arguments, whatever the order of completion
gather(completed) ==
    [ i \in DOMAIN completed |->
        (CHOOSE c \in Range(completed) : c.index = i).res ]

\* relabel_step without line 218: every result draws from the same block
relabel_step_one_block(st, res) ==
    LET ws          == res.ws_result
        unique_subs == { v \in { ws[q] : q \in DOMAIN ws } : v > 0 }
        rank(v)     == Cardinality({ u \in unique_subs : u < v })
        inbox(p)    == /\ res.row_min <= p[1] /\ p[1] < res.row_max
                       /\ res.col_min <= p[2] /\ p[2] < res.col_max
        rel(p)      == <<p[1] - res.row_min, p[2] - res.col_min>>
    IN  [ seg |-> [ p \in DOMAIN st.seg |->
                      IF inbox(p) /\ ws[rel(p)] > 0
                      THEN st.new_label + rank(ws[rel(p)])
                      ELSE st.seg[p] ],
          new_label |-> st.new_label ]

\* relabel_step writing the whole bounding box (line 229 without the mask)
relabel_step_unmasked(st, res) ==
    LET ws          == res.ws_result
        unique_subs == { v \in { ws[q] : q \in DOMAIN ws } : v > 0 }
        rank(v)     == Cardinality({ u \in unique_subs : u < v })
        inbox(p)    == /\ res.row_min <= p[1] /\ p[1] < res.row_max
                       /\ res.col_min <= p[2] /\ p[2] < res.col_max
        rel(p)      == <<p[1] - res.row_min, p[2] - res.col_min>>
    IN  [ seg |-> [ p \in DOMAIN st.seg |->
                      IF inbox(p)
                      THEN IF ws[rel(p)] > 0
                           THEN st.new_label + rank(ws[rel(p)])
                           ELSE 0
                      ELSE st.seg[p] ],
          new_label |-> st.new_label + Cardinality(unique_subs) ]

\* one round of the loop of lines 209-229: the sub-labels of res get the
\* block new_label, new_label + 1, ... and are written where ws_result > 0
relabel_step(st, res) ==
    LET ws          == res.ws_result
        unique_subs == { v \in { ws[q] : q \in DOMAIN ws } : v > 0 }
        \* np.searchsorted(unique_subs, v): the rank of v among the sub-labels
        rank(v)     == Cardinality({ u \in unique_subs : u < v })
        inbox(p)    == /\ res.row_min <= p[1] /\ p[1] < res.row_max
                       /\ res.col_min <= p[2] /\ p[2] < res.col_max
        rel(p)      == <<p[1] - res.row_min, p[2] - res.col_min>>
    IN  [ seg |-> [ p \in DOMAIN st.seg |->
                      IF inbox(p) /\ ws[rel(p)] > 0
                      THEN st.new_label + rank(ws[rel(p)])
                      ELSE st.seg[p] ],
          new_label |-> st.new_label + Cardinality(unique_subs) ]

RECURSIVE relabel_loop(_, _)
relabel_loop(st, results) ==
    IF results = << >> THEN st
    ELSE relabel_loop(relabel_step(st, Head(results)), Tail(results))

\* seg after the loop of lines 208-229
relabel(seg, results) ==
    relabel_loop([ seg |-> seg,
                   new_label |-> SetMax({ seg[p] : p \in DOMAIN seg }) + 1 ],
                 results).seg

\* sky coordinates are integers in units of 1 / SKY_SCALE pixel; the WCS of a
\* header is the translation by (CRVAL1, CRVAL2), in (x, y) = (col, row) order
SKY_SCALE == 2

\* wcs_obj.all_pix2world(x, y, 0) for a pixel position given as fractions
all_pix2world(header, x, y) ==
    << <<SKY_SCALE * x[1] + header["CRVAL1"] * x[2], x[2]>>,
       <<SKY_SCALE * y[1] + header["CRVAL2"] * y[2], y[2]>> >>

\* clusters_of without the size test of lines 243-245
clusters_of_unfiltered(meta_doc, image, seg) ==
    LET hi            == high_intensity_pixels(image)
        header        == meta_doc.secondary_header
        unique_labels == SortedSeq({ seg[p] : p \in hi } \ {-1})
        members(lab)  == { p \in hi : seg[p] = lab }
        cluster(lab)  ==
            LET pixel_indices == RowMajor(members(lab))
                n             == Len(pixel_indices)
                sum_row       == SeqSum([ i \in 1 .. n |-> pixel_indices[i][1] ])
                sum_col       == SeqSum([ i \in 1 .. n |-> pixel_indices[i][2] ])
                world(i)      == all_pix2world(header, <<pixel_indices[i][2], 1>>,
                                               <<pixel_indices[i][1], 1>>)
            IN  [ cluster_label |-> <<meta_doc.filename, lab>>,
                  centroid      |-> all_pix2world(header, <<sum_col, n>>, <<sum_row, n>>),
                  pixels        |-> [ i \in 1 .. n |-> <<world(i)[1][1], world(i)[2][1]>> ] ]
    IN  [ i \in DOMAIN unique_labels |-> cluster(unique_labels[i]) ]

\* clusters_of without the filter of line 237 on the label -1
clusters_of_with_noise(meta_doc, image, seg) ==
    LET hi            == high_intensity_pixels(image)
        header        == meta_doc.secondary_header
        unique_labels == SortedSeq({ seg[p] : p \in hi })
        members(lab)  == { p \in hi : seg[p] = lab }
        kept          == SelectSeq(unique_labels, LAMBDA lab : ~(Cardinality(members(lab)) < 4))
        cluster(lab)  ==
            LET pixel_indices == RowMajor(members(lab))
                n             == Len(pixel_indices)
                sum_row       == SeqSum([ i \in 1 .. n |-> pixel_indices[i][1] ])
                sum_col       == SeqSum([ i \in 1 .. n |-> pixel_indices[i][2] ])
                world(i)      == all_pix2world(header, <<pixel_indices[i][2], 1>>,
                                               <<pixel_indices[i][1], 1>>)
            IN  [ cluster_label |-> <<meta_doc.filename, lab>>,
                  centroid      |-> all_pix2world(header, <<sum_col, n>>, <<sum_row, n>>),
                  pixels        |-> [ i \in 1 .. n |-> <<world(i)[1][1], world(i)[2][1]>> ] ]
    IN  [ i \in DOMAIN kept |-> cluster(kept[i]) ]

\* lines 235-261: one dictionary per refined label that keeps at least 4 of
\* the high-intensity pixels, in increasing label order
clusters_of(meta_doc, image, seg) ==
    LET hi            == high_intensity_pixels(image)
        header        == meta_doc.secondary_header
        unique_labels == SortedSeq({ seg[p] : p \in hi } \ {-1})
        members(lab)  == { p \in hi : seg[p] = lab }
        kept          == SelectSeq(unique_labels, LAMBDA lab : ~(Cardinality(members(lab)) < 4))
        cluster(lab)  ==
            LET pixel_indices == RowMajor(members(lab))
                n             == Len(pixel_indices)
                sum_row       == SeqSum([ i \in 1 .. n |-> pixel_indices[i][1] ])
                sum_col       == SeqSum([ i \in 1 .. n |-> pixel_indices[i][2] ])
                world(i)      == all_pix2world(header, <<pixel_indices[i][2], 1>>,
                                               <<pixel_indices[i][1], 1>>)
            IN  [ cluster_label |-> <<meta_doc.filename, lab>>,
                  centroid      |-> all_pix2world(header, <<sum_col, n>>, <<sum_row, n>>),
                  pixels        |-> [ i \in 1 .. n |-> <<world(i)[1][1], world(i)[2][1]>> ] ]
    IN  [ i \in DOMAIN kept |-> cluster(kept[i]) ]

\* get_apertures(meta_doc), given the image stored for it: the lists it can
\* return (one per outcome of the watershed calls)
get_apertures(meta_doc, image) ==
    LET seg == initial_seg(image)
    IN  { clusters_of(meta_doc, image, relabel(seg, results))
          : results \in compute(watershed_tasks(seg)) }

\* ------------------------------------------------------------------------
\* generate_astroseismic_signal.py : flux extraction
\* ------------------------------------------------------------------------

\* IMAGE_SHAPE = (2136, 2078), "(ny, nx)", scaled down with the images of the
\* model; like the source's it is taller than wide, while the stored arrays
\* are wider than tall
IMAGE_SHAPE == <<4, 3>>

\* the margin added around the bounding box (5 pixels in the source, scaled
\* down with the images of the model)
BOX_MARGIN == 1

\* np.round of a value given in units of 1 / SKY_SCALE: halves go to the even
\* integer
np_round(v) ==
    LET k == v \div SKY_SCALE
    IN  IF v % SKY_SCALE = 0 THEN k
        ELSE IF k % 2 = 0 THEN k ELSE k + 1

\* numpy integer indexing along an axis of length n: a negative index counts
\* from the end, an index outside [-n, n) raises IndexError
np_index_ok(i, n) == -n <= i /\ i < n

np_index(i, n) == IF i < 0 THEN i + n ELSE i

\* numpy slicing start:stop along an axis of length n: the indices selected
np_slice(start, stop, n) ==
    LET norm(i) == IF i < 0 THEN Max2(i + n, 0) ELSE Min2(i, n)
    IN  norm(start) .. (norm(stop) - 1)

\* image[xs, ys]: the pixel coordinates indexed without the swap of line 58
indexed_pixels_unswapped(image, pix_coords) ==
    [ i \in DOMAIN pix_coords |->
        <<np_index(np_round(pix_coords[i][1]), NRows(image)),
          np_index(np_round(pix_coords[i][2]), NCols(image))>> ]

\* the (row, column) pixels that image[ys, xs] reads (lines 55-58)
indexed_pixels(image, pix_coords) ==
    [ i \in DOMAIN pix_coords |->
        <<np_index(np_round(pix_coords[i][2]), NRows(image)),
          np_index(np_round(pix_coords[i][1]), NCols(image))>> ]

\* compute_fluxes(image, pix_coords); pix_coords is a sequence of <<x, y>> in
\* units of 1 / SKY_SCALE pixel.  The result is [raised |-> "IndexError"] or
\* [raised |-> "", cluster_flux |-> .., mask_flux |-> ..]
compute_fluxes(image, pix_coords) ==
    LET ny  == NRows(image)
        nx  == NCols(image)
        xs  == [ i \in DOMAIN pix_coords |-> np_round(pix_coords[i][1]) ]
        ys  == [ i \in DOMAIN pix_coords |-> np_round(pix_coords[i][2]) ]
        cluster_flux ==
            SeqSum([ i \in DOMAIN pix_coords |->
                       image[indexed_pixels(image, pix_coords)[i]] ])
        x_min == Max2(0, SetMin(Range(xs)) - BOX_MARGIN)
        y_min == Max2(0, SetMin(Range(ys)) - BOX_MARGIN)
        x_max == Min2(IMAGE_SHAPE[2] - 1, SetMax(Range(xs)) + BOX_MARGIN)
        y_max == Min2(IMAGE_SHAPE[1] - 1, SetMax(Range(ys)) + BOX_MARGIN)
        box   == np_slice(y_min, y_max + 1, ny) \X np_slice(x_min, x_max + 1, nx)
        bounding_box_flux == SetSum(image, box)
    IN  IF \E i \in DOMAIN pix_coords :
              ~np_index_ok(ys[i], ny) \/ ~np_index_ok(xs[i], nx)
        THEN [ raised |-> "IndexError" ]
        ELSE [ raised |-> "", cluster_flux |-> cluster_flux,
               mask_flux |-> bounding_box_flux - cluster_flux ]

\* wcs_obj.calc_footprint(): the sky positions of the four corner pixels of
\* the NAXIS1 x NAXIS2 array, as [x, y] pairs
calc_footprint(header) ==
    LET corner(x, y) == LET w == all_pix2world(header, <<x, 1>>, <<y, 1>>)
                        IN  <<w[1][1], w[2][1]>>
    IN  << corner(0, 0), corner(0, header["NAXIS2"] - 1),
           corner(header["NAXIS1"] - 1, header["NAXIS2"] - 1),
           corner(header["NAXIS1"] - 1, 0) >>

\* within_polygon testing one axis only
within_polygon_one_axis(centroid, polygon) ==
    LET pys == { polygon[i][2] : i \in DOMAIN polygon }
        y   == centroid[2]
    IN  SetMin(pys) * y[2] <= y[1] /\ y[1] <= SetMax(pys) * y[2]

\* MongoDB {"$within": {"$polygon": polygon}} on a centroid given as
\* fractions; the polygons of the model are axis-parallel rectangles
within_polygon(centroid, polygon) ==
    LET pxs == { polygon[i][1] : i \in DOMAIN polygon }
        pys == { polygon[i][2] : i \in DOMAIN polygon }
        x   == centroid[1]
        y   == centroid[2]
    IN  /\ SetMin(pxs) * x[2] <= x[1] /\ x[1] <= SetMax(pxs) * x[2]
        /\ SetMin(pys) * y[2] <= y[1] /\ y[1] <= SetMax(pys) * y[2]

\* wcs_obj.all_world2pix(pixel_world, 0): pixel positions (x, y) in units of
\* 1 / SKY_SCALE pixel
all_world2pix(header, pixel_world) ==
    [ i \in DOMAIN pixel_world |->
        <<pixel_world[i][1] - header["CRVAL1"], pixel_world[i][2] - header["CRVAL2"]>> ]

\* aperture_coll.find({"centroid": {"$within": {"$polygon": footprint}}}): the
\* matching documents in collection order
find_within(aperture_coll, footprint) ==
    SelectSeq(aperture_coll, LAMBDA aper : within_polygon(aper.centroid, footprint))

\* process_metadata_document labelling a flux document by the image it was
\* measured on instead of by its aperture
process_metadata_document_image_label(meta_doc, image, aperture_coll) ==
    LET header        == meta_doc.secondary_header
        obs_timestamp == header["DATE-OBS"]
        footprint     == calc_footprint(header)
        found         == find_within(aperture_coll, footprint)
        flux(aper)    == compute_fluxes(image, all_world2pix(header, aper.pixels))
    IN  IF \E i \in DOMAIN found : flux(found[i]).raised # ""
        THEN [ raised |-> "IndexError" ]
        ELSE [ raised |-> "",
               results |-> [ i \in DOMAIN found |->
                               [ cluster_label |-> <<meta_doc.filename,
                                                     found[i].cluster_label[2]>>,
                                 obs_timestamp |-> obs_timestamp,
                                 cluster_flux  |-> flux(found[i]).cluster_flux,
                                 mask_flux     |-> flux(found[i]).mask_flux ] ] ]

\* process_metadata_document(meta_doc), given the corrected image stored for
\* it and the aperture collection: [raised |-> "IndexError"] or
\* [raised |-> "", results |-> the list of flux documents]
process_metadata_document(meta_doc, image, aperture_coll) ==
    LET header        == meta_doc.secondary_header
        obs_timestamp == header["DATE-OBS"]
        footprint     == calc_footprint(header)
        found         == find_within(aperture_coll, footprint)
        flux(aper)    == compute_fluxes(image, all_world2pix(header, aper.pixels))
    IN  IF \E i \in DOMAIN found : flux(found[i]).raised # ""
        THEN [ raised |-> "IndexError" ]
        ELSE [ raised |-> "",
               results |-> [ i \in DOMAIN found |->
                               [ cluster_label |-> found[i].cluster_label,
                                 obs_timestamp |-> obs_timestamp,
                                 cluster_flux  |-> flux(found[i]).cluster_flux,
                                 mask_flux     |-> flux(found[i]).mask_flux ] ] ]

\* ------------------------------------------------------------------------
\* State
\* ------------------------------------------------------------------------

VARIABLES
    \* one call of get_apertures, followed step by step
    image,          \* the corrected image it downloads
    pc,             \* where the call stands
    seg,            \* its segmentation array
    finished,       \* the watershed tasks that completed, in completion order
    clusters,       \* the list it returns
    \* one call of compute_fluxes
    pix_coords,     \* its pixel coordinates (image is its array)
    fluxes,         \* what it returns
    \* one call of process_image
    bg,             \* its arguments and the locals of the background iteration
    \* the stores of the pipeline
    metadata,       \* collection fits_metadata.metadata, in insertion order
    raw_ffic,       \* bucket raw-ffic: filename -> array
    corrected_ffic, \* bucket corrected-ffic: filename -> array
    apertures,      \* collection stars.apertures, in insertion order
    pixel_files,    \* collection stars.pixel_files, in insertion order
    \* history: the file each document of pixel_files was computed from
    pixel_source,
    \* history: the last script run and how it ended
    last

call_vars == <<image, pc, seg, finished, clusters, pix_coords, fluxes, bg>>

store_vars == <<metadata, raw_ffic, corrected_ffic, apertures, pixel_files,
                pixel_source, last>>

vars == <<image, pc, seg, finished, clusters, pix_coords, fluxes, bg, metadata, raw_ffic,
          corrected_ffic, apertures, pixel_files, pixel_source, last>>

\* an array of shape (h, w) that is 1 on the pixels `ones` and 0 elsewhere
Bitmap(h, w, ones) == [ p \in Grid(h, w) |-> IF p \in ones THEN 1 ELSE 0 ]

\* a FITS header as inject stores it: the keys of the file, verbatim
Header(camera, ccd, date_obs, naxis1, naxis2, crval1, crval2) ==
    [ k \in {"CAMERA", "CCD", "DATE-OBS", "NAXIS1", "NAXIS2", "CRVAL1", "CRVAL2"} |->
        CASE k = "CAMERA"   -> camera
          [] k = "CCD"      -> ccd
          [] k = "DATE-OBS" -> date_obs
          [] k = "NAXIS1"   -> naxis1
          [] k = "NAXIS2"   -> naxis2
          [] k = "CRVAL1"   -> crval1
          [] k = "CRVAL2"   -> crval2 ]

\* ------------------------------------------------------------------------
\* One call of get_apertures on every small image (specification SpecCall)
\* ------------------------------------------------------------------------

\* the images of SpecCall: arrays of shape CallShape with pixel values 0 or 1,
\* at most MaxBright of them 1
CallShape == <<3, 4>>

MaxBright == 9

CallImages ==
    { img \in [ Grid(CallShape[1], CallShape[2]) -> {0, 1} ] :
        Cardinality({ p \in DOMAIN img : img[p] = 1 }) <= MaxBright }

\* the metadata document of the call
CallDoc == [ filename |-> "ref", upload_time |-> 1,
             secondary_header |-> Header(1, 1, 1, CallShape[2], CallShape[1], 0, 0) ]

NoStores ==
    /\ metadata = << >>
    /\ raw_ffic = << >>
    /\ corrected_ffic = << >>
    /\ apertures = << >>
    /\ pixel_files = << >>
    /\ pixel_source = << >>
    /\ last = [ stage |-> "none", raised |-> "", files |-> << >>, processed |-> << >> ]

InitCall ==
    /\ image \in CallImages
    /\ pc = "start"
    /\ seg = << >>
    /\ clusters = << >>
    /\ finished = << >>
    /\ bg = << >>
    /\ pix_coords = << >>
    /\ fluxes = << >>
    /\ NoStores

\* lines 168-170: threshold, DBSCAN, the first segmentation
ClusterPixels ==
    /\ pc = "start"
    /\ IF filtered_dbscan_raises(image)
       THEN pc' = "ValueError" /\ seg' = seg
       ELSE pc' = "clustered" /\ seg' = initial_seg(image)
    /\ UNCHANGED <<image, finished, clusters, pix_coords, fluxes, bg>>
    /\ UNCHANGED store_vars

\* lines 189-205: one of the watershed tasks that have not completed yet
\* completes; the scheduler runs the tasks in processes, in any order
WatershedTask ==
    /\ pc = "clustered"
    /\ \E i \in DOMAIN watershed_tasks(seg) \ { finished[k].index : k \in DOMAIN finished } :
       \E w \in watershed_patch(watershed_tasks(seg)[i]) :
          LET t == watershed_tasks(seg)[i]
          IN  finished' = Append(finished, [ index |-> i,
                                     res |-> [ row_min |-> t.row_min,
                                               row_max |-> t.row_max,
                                               col_min |-> t.col_min,
                                               col_max |-> t.col_max,
                                               ws_result |-> w ] ])
    /\ UNCHANGED <<image, pc, seg, clusters, pix_coords, fluxes, bg>>
    /\ UNCHANGED store_vars

\* lines 205-229: compute returns once every task has completed, and the
\* relabelling loop runs over its results
SplitBlobs ==
    /\ pc = "clustered"
    /\ Len(finished) = Len(watershed_tasks(seg))
    /\ seg' = relabel(seg, gather(finished))
    /\ pc' = "relabelled"
    /\ UNCHANGED <<image, finished, clusters, pix_coords, fluxes, bg>>
    /\ UNCHANGED store_vars

\* lines 231-263: the clusters returned
EmitClusters ==
    /\ pc = "relabelled"
    /\ clusters' = clusters_of(CallDoc, image, seg)
    /\ pc' = "returned"
    /\ UNCHANGED <<image, seg, finished, pix_coords, fluxes, bg>>
    /\ UNCHANGED store_vars

NextCall == ClusterPixels \/ WatershedTask \/ SplitBlobs \/ EmitClusters

SpecCall == InitCall /\ [][NextCall]_vars

\* ------------------------------------------------------------------------
\* One call of compute_fluxes (specification SpecFlux)
\* ------------------------------------------------------------------------

\* the most coordinates an aperture of SpecFlux has
MaxFluxPixels == 2

RECURSIVE Pow2(_)
Pow2(n) == IF n = 0 THEN 1 ELSE 2 * Pow2(n - 1)

\* the array of shape (h, w) whose pixel values are distinct powers of two:
\* a sum of its pixels tells which pixels were summed, and how often
Weights(h, w) == [ p \in Grid(h, w) |-> Pow2(p[1] * w + p[2]) ]

\* the arrays of SpecFlux: of the shape of IMAGE_SHAPE, and of the shape the
\* stored arrays have (wider than tall)
FluxImages == { Weights(IMAGE_SHAPE[1], IMAGE_SHAPE[2]),
                Weights(IMAGE_SHAPE[2], IMAGE_SHAPE[1]) }

\* the positions <<x, y>> of SpecFlux, in units of 1 / SKY_SCALE pixel: x from
\* -1.5 to 4, y from -1 to 4, so that either may fall off each array on both
\* sides
FluxPositions ==
    ((-3) .. (SKY_SCALE * IMAGE_SHAPE[1])) \X { SKY_SCALE * y : y \in (-1) .. IMAGE_SHAPE[1] }

FluxCoords == UNION { [ 1 .. n -> FluxPositions ] : n \in 1 .. MaxFluxPixels }

InitFlux ==
    /\ image \in FluxImages
    /\ pix_coords \in FluxCoords
    /\ pc = "start"
    /\ fluxes = << >>
    /\ seg = << >>
    /\ clusters = << >>
    /\ finished = << >>
    /\ bg = << >>
    /\ NoStores

\* the call of line 122
ComputeFluxes ==
    /\ pc = "start"
    /\ fluxes' = compute_fluxes(image, pix_coords)
    /\ pc' = IF fluxes'.raised = "" THEN "returned" ELSE fluxes'.raised
    /\ UNCHANGED <<image, pix_coords, seg, finished, clusters, bg>>
    /\ UNCHANGED store_vars

NextFlux == ComputeFluxes

SpecFlux == InitFlux /\ [][NextFlux]_vars

\* ------------------------------------------------------------------------
\* The pipeline over its stores (specification Spec)
\* ------------------------------------------------------------------------

\* bounds of the model: the documents injected, the documents the two
\* collections of the stars database may hold
MaxDocs == 2

MaxApertures == 4

MaxSamples == 4

\* the arrays of the pipeline are NAXIS2 = 3 rows by NAXIS1 = 5 columns
PipeShape == <<3, 5>>

\* no source: a flat array
Blank == Bitmap(PipeShape[1], PipeShape[2], {})

\* three bright pixels: too few for a DBSCAN core point
Faint == Bitmap(PipeShape[1], PipeShape[2], { <<0, 0>>, <<0, 1>>, <<1, 0>> })

\* two sources of 2 x 2 pixels, left and right
TwoStars == Bitmap(PipeShape[1], PipeShape[2],
                   { <<0, 0>>, <<0, 1>>, <<1, 0>>, <<1, 1>>,
                     <<1, 3>>, <<1, 4>>, <<2, 3>>, <<2, 4>> })

\* a CCD keeps its pointing: CCD c looks 2 pixels to the right of CCD c - 1
Pointing(ccd) == 2 * SKY_SCALE * (ccd - 1)

\* the FITS files that may be injected, each at most once: name, CCD,
\* DATE-OBS and array
FitsFiles ==
    { [ name |-> "a", ccd |-> 1, date_obs |-> 2, data |-> TwoStars ],
      [ name |-> "b", ccd |-> 1, date_obs |-> 1, data |-> Blank ],
      [ name |-> "c", ccd |-> 2, date_obs |-> 1, data |-> TwoStars ],
      [ name |-> "d", ccd |-> 2, date_obs |-> 2, data |-> Faint ],
      [ name |-> "e", ccd |-> 5, date_obs |-> 1, data |-> TwoStars ] }

FileNames == { f.name : f \in FitsFiles }

Init ==
    /\ image = << >>
    /\ pc = "idle"
    /\ seg = << >>
    /\ clusters = << >>
    /\ finished = << >>
    /\ bg = << >>
    /\ pix_coords = << >>
    /\ fluxes = << >>
    /\ NoStores

\* inject (api/app/endpoints/inject.py): the file goes to the raw bucket and a
\* metadata document with its headers is inserted.  The stored filename
\* carries a fresh uuid; the model injects a file once and keeps its name.
\* upload_time is the clock at insertion.
inject(file) ==
    LET header == Header(1, file.ccd, file.date_obs, PipeShape[2], PipeShape[1],
                         Pointing(file.ccd), 0)
    IN  /\ Len(metadata) < MaxDocs
        /\ file.name \notin DOMAIN raw_ffic
        /\ raw_ffic' = [ f \in DOMAIN raw_ffic \cup {file.name} |->
                           IF f = file.name THEN file.data ELSE raw_ffic[f] ]
        /\ metadata' = Append(metadata, [ filename |-> file.name,
                                          upload_time |-> Len(metadata) + 1,
                                          secondary_header |-> header ])
        /\ last' = [ stage |-> "inject", raised |-> "", files |-> <<file.name>>,
                     processed |-> << >> ]
        /\ UNCHANGED <<corrected_ffic, apertures, pixel_files, pixel_source>>
        /\ UNCHANGED call_vars

Inject == \E file \in FitsFiles : inject(file)

\* get_ccd_position(ccd) raises ValueError for a CCD other than 1, 2, 3, 4
get_ccd_position_raises(ccd) == ccd \notin {1, 2, 3, 4}

\* get_ccd_position(ccd): the side and the vertical position of the CCD
get_ccd_position(ccd) ==
    CASE ccd = 1 -> <<"left", "top">>
      [] ccd = 2 -> <<"right", "top">>
      [] ccd = 3 -> <<"left", "bottom">>
      [] ccd = 4 -> <<"right", "bottom">>

\* process_single_ffi(doc): "ValueError" when get_ccd_position raises (line
\* 307, outside of the try blocks), else the status string of line 316.  The
\* raw file of a metadata document exists, so the download succeeds.
process_single_ffi(doc) ==
    IF get_ccd_position_raises(doc.secondary_header["CCD"])
    THEN "ValueError"
    ELSE "Processed"

\* preprocess_photometric.main(upload_time_threshold): every document
\* uploaded since the threshold is submitted to the pool; a worker stores
\* the processed array in the corrected bucket under filename + ".npy".  The
\* array process_image yields is a function of the raw array alone; the
\* model's raw bucket holds it.  future.result() (line 341) raises what the
\* worker raised: main then ends with that exception, after the statuses of
\* the futures that completed earlier were printed (any of the others), and
\* the executor's exit waits for the workers still running.
preprocess_photometric_main(upload_time_threshold) ==
    LET ffis   == SelectSeq(metadata, LAMBDA doc : doc.upload_time >= upload_time_threshold)
        ok     == { ffis[i].filename : i \in { j \in DOMAIN ffis :
                                                 process_single_ffi(ffis[j]) = "Processed" } }
        failed == \E i \in DOMAIN ffis : process_single_ffi(ffis[i]) = "ValueError"
        names  == [ i \in DOMAIN ffis |-> ffis[i].filename ]
    IN  \E printed \in (IF failed THEN SUBSET ok ELSE {ok}) :
        /\ corrected_ffic' = [ f \in DOMAIN corrected_ffic \cup ok |->
                                 IF f \in ok THEN raw_ffic[f] ELSE corrected_ffic[f] ]
        /\ last' = [ stage |-> "preprocess_photometric",
                     raised |-> IF failed THEN "ValueError" ELSE "",
                     files |-> names,
                     processed |-> SelectSeq(names, LAMBDA f : f \in printed) ]
        /\ UNCHANGED <<metadata, raw_ffic, apertures, pixel_files, pixel_source>>
        /\ UNCHANGED call_vars

PreprocessPhotometric ==
    \E upload_time_threshold \in 1 .. MaxDocs :
        preprocess_photometric_main(upload_time_threshold)

\* a sort key of the aggregation: a missing field sorts as null, before
\* every number
sort_value(header, key) ==
    IF key \in DOMAIN header THEN <<1, header[key]>> ELSE <<0, 0>>

\* the $sort of lines 280-284 puts doc d no later than doc e
sort_leq(d, e) ==
    LET kd == << sort_value(d.secondary_header, "CAMERA")[2],
                 sort_value(d.secondary_header, "CCD")[2],
                 sort_value(d.secondary_header, "date_obs")[1],
                 sort_value(d.secondary_header, "date_obs")[2] >>
        ke == << sort_value(e.secondary_header, "CAMERA")[2],
                 sort_value(e.secondary_header, "CCD")[2],
                 sort_value(e.secondary_header, "date_obs")[1],
                 sort_value(e.secondary_header, "date_obs")[2] >>
    IN  \/ kd = ke
        \/ \E i \in 1 .. 4 : kd[i] < ke[i] /\ \A j \in 1 .. i - 1 : kd[j] = ke[j]

\* the _id of the $group of lines 285-291
group_id(doc) == <<doc.secondary_header["CAMERA"], doc.secondary_header["CCD"]>>

\* the lists the aggregation of lines 279-294 can return: per (camera, CCD)
\* the first document of the sort, documents with equal keys in either
\* order, the groups in any order
files_to_process(coll) ==
    LET docs     == Range(coll)
        groups   == { group_id(d) : d \in docs }
        first(d) == \A e \in docs : group_id(e) = group_id(d) => sort_leq(d, e)
        n        == Cardinality(groups)
    IN  { files \in [ 1 .. n -> { d \in docs : first(d) } ] :
            \A i, j \in 1 .. n : i # j => group_id(files[i]) # group_id(files[j]) }

RECURSIVE apertures_loop(_, _, _, _)
\* the loop of lines 299-302 over the documents `files`: the ways it can end,
\* as [apertures, raised, processed].  get_apertures raises ClientError when
\* the corrected array is missing and ValueError when no pixel is above the
\* threshold; insert_many raises TypeError on an empty list.
apertures_loop(files, corrected, coll, processed) ==
    IF files = << >>
    THEN { [ apertures |-> coll, raised |-> "", processed |-> processed ] }
    ELSE LET doc  == Head(files)
             seen == Append(processed, doc.filename)
             stop(exc) == { [ apertures |-> coll, raised |-> exc, processed |-> seen ] }
         IN  IF doc.filename \notin DOMAIN corrected THEN stop("ClientError")
             ELSE IF filtered_dbscan_raises(corrected[doc.filename]) THEN stop("ValueError")
             ELSE UNION { IF clusters_dict = << >> THEN stop("TypeError")
                          ELSE apertures_loop(Tail(files), corrected,
                                              coll \o clusters_dict, seen)
                          : clusters_dict \in get_apertures(doc, corrected[doc.filename]) }

\* generate_apertures.main()
generate_apertures_main ==
    \E files \in files_to_process(metadata) :
    \E end \in apertures_loop(files, corrected_ffic, apertures, << >>) :
        /\ Len(end.apertures) <= MaxApertures
        /\ apertures' = end.apertures
        /\ last' = [ stage |-> "generate_apertures", raised |-> end.raised,
                     files |-> [ i \in DOMAIN files |-> files[i].filename ],
                     processed |-> end.processed ]
        /\ UNCHANGED <<metadata, raw_ffic, corrected_ffic, pixel_files, pixel_source>>
        /\ UNCHANGED call_vars

RECURSIVE signal_loop(_, _, _, _, _)
\* the loop of lines 150-153: [raised, batch_results, sources, processed].
\* process_metadata_document raises ClientError when the corrected array is
\* missing and IndexError from compute_fluxes.
signal_loop(docs, corrected, coll, batch, processed) ==
    IF docs = << >>
    THEN [ raised |-> "", batch_results |-> batch.results, sources |-> batch.sources,
           processed |-> processed ]
    ELSE LET doc  == Head(docs)
             seen == Append(processed, doc.filename)
             stop(exc) == [ raised |-> exc, batch_results |-> << >>, sources |-> << >>,
                            processed |-> seen ]
         IN  IF doc.filename \notin DOMAIN corrected THEN stop("ClientError")
             ELSE LET r == process_metadata_document(doc, corrected[doc.filename], coll)
                  IN  IF r.raised # "" THEN stop(r.raised)
                      ELSE signal_loop(Tail(docs), corrected, coll,
                                       [ results |-> batch.results \o r.results,
                                         sources |-> batch.sources \o
                                                     [ i \in DOMAIN r.results |-> doc.filename ] ],
                                       seen)

\* generate_astroseismic_signal.main() writing the collection anew with the
\* batch of the run
generate_astroseismic_signal_main_rewrite ==
    LET end == signal_loop(metadata, corrected_ffic, apertures,
                           [ results |-> << >>, sources |-> << >> ], << >>)
        raised == IF metadata = << >> THEN ""
                  ELSE IF end.raised # "" THEN end.raised
                  ELSE IF end.batch_results = << >> THEN "TypeError"
                  ELSE ""
    IN  /\ Len(end.batch_results) <= MaxSamples
        /\ pixel_files' = end.batch_results
        /\ pixel_source' = end.sources
        /\ last' = [ stage |-> "generate_astroseismic_signal", raised |-> raised,
                     files |-> [ i \in DOMAIN metadata |-> metadata[i].filename ],
                     processed |-> end.processed ]
        /\ UNCHANGED <<metadata, raw_ffic, corrected_ffic, apertures>>
        /\ UNCHANGED call_vars

\* generate_astroseismic_signal.main()
generate_astroseismic_signal_main ==
    LET end == signal_loop(metadata, corrected_ffic, apertures,
                           [ results |-> << >>, sources |-> << >> ], << >>)
        \* insert_many raises TypeError on an empty list
        raised == IF metadata = << >> THEN ""
                  ELSE IF end.raised # "" THEN end.raised
                  ELSE IF end.batch_results = << >> THEN "TypeError"
                  ELSE ""
    IN  /\ Len(pixel_files) + Len(end.batch_results) <= MaxSamples
        /\ pixel_files' = pixel_files \o end.batch_results
        /\ pixel_source' = pixel_source \o end.sources
        /\ last' = [ stage |-> "generate_astroseismic_signal", raised |-> raised,
                     files |-> [ i \in DOMAIN metadata |-> metadata[i].filename ],
                     processed |-> end.processed ]
        /\ UNCHANGED <<metadata, raw_ffic, corrected_ffic, apertures>>
        /\ UNCHANGED call_vars

\* the documents served by get_cluster_data in collection order, without
\* the sort of line 28
light_curve_unsorted(coll, chosen_label) ==
    { SelectSeq(coll, LAMBDA d : d.cluster_label = chosen_label) }

\* pixel_coll.find({"cluster_label": chosen_label}).sort("obs_timestamp", 1)
\* (line 28): the documents of the label in ascending obs_timestamp order,
\* documents of equal timestamp in any order
light_curve(coll, chosen_label) ==
    LET found == { i \in DOMAIN coll : coll[i].cluster_label = chosen_label }
        n     == Cardinality(found)
    IN  { [ k \in 1 .. n |-> coll[order[k]] ]
          : order \in { o \in [ 1 .. n -> found ] :
                          /\ \A j, k \in 1 .. n : j # k => o[j] # o[k]
                          /\ \A j, k \in 1 .. n :
                                 j < k => coll[o[j]].obs_timestamp
                                              <= coll[o[k]].obs_timestamp } }

\* GET /curated (api/app/endpoints/curated.py): a label drawn at random among
\* the distinct labels of pixel_files and its light curve; without any label
\* the endpoint answers with an HTTPException.  The answer is kept in `last`:
\* the label in files, the timestamps of the light curve in processed.
get_cluster_data ==
    LET distinct_labels == { pixel_files[i].cluster_label : i \in DOMAIN pixel_files }
    IN  /\ IF distinct_labels = {}
           THEN last' = [ stage |-> "curated", raised |-> "HTTPException",
                          files |-> << >>, processed |-> << >> ]
           ELSE \E chosen_label \in distinct_labels :
                \E docs \in light_curve(pixel_files, chosen_label) :
                    last' = [ stage |-> "curated", raised |-> "",
                              files |-> <<chosen_label>>,
                              processed |-> [ i \in DOMAIN docs |->
                                                docs[i].obs_timestamp ] ]
        /\ UNCHANGED <<metadata, raw_ffic, corrected_ffic, apertures, pixel_files,
                       pixel_source>>
        /\ UNCHANGED call_vars

Next ==
    \/ Inject
    \/ PreprocessPhotometric
    \/ generate_apertures_main
    \/ generate_astroseismic_signal_main
    \/ get_cluster_data

Spec == Init /\ [][Next]_vars

\* ------------------------------------------------------------------------
\* Background estimation (preprocess_photometric.py)
\* ------------------------------------------------------------------------

\* An array of the background estimation is its shape and, for its pixel
\* values, the expression that computes them: the numerical kernels of numpy
\* and scipy (median, mode, spline, interpolation) are functions of their
\* arguments and are kept as such.  Which calls are made, on which arguments,
\* and which of them raise is computed from the shapes and the parameters.

\* image - background (lines 224, 227, 254)
minus(a, b) == [ shape |-> a.shape, px |-> <<"minus", a.px, b.px>> ]

\* b_square + b_radial (line 237)
plus(a, b) == [ shape |-> a.shape, px |-> <<"plus", a.px, b.px>> ]

\* the exception estimate_square_background(image, tile_size) raises on an
\* image of this shape, "" when it raises none: arr.reshape of
\* view_as_blocks_custom (line 145) raises ValueError unless both sides are
\* multiples of the tile size, and the cubic RectBivariateSpline of line 166
\* needs 4 grid points on each axis
estimate_square_background_raises(shape, tile_size) ==
    IF shape[1] % tile_size # 0 \/ shape[2] % tile_size # 0
    THEN "ValueError"
    ELSE IF shape[1] \div tile_size < 4 \/ shape[2] \div tile_size < 4
    THEN "FitpackError"
    ELSE ""

\* estimate_square_background(image, tile_size) when it raises nothing
\* (lines 158-166)
estimate_square_background(img, tile_size) ==
    [ shape |-> img.shape, px |-> <<"estimate_square_background", img.px, tile_size>> ]

\* the squared distance of pixel p to the corner of the optical centre
\* (lines 184-187)
dist2(p, shape, side, vertical) ==
    LET origin_y == IF vertical = "top" THEN shape[1] - 1 ELSE 0
        origin_x == IF side = "left" THEN shape[2] - 1 ELSE 0
    IN  (p[2] - origin_x) * (p[2] - origin_x) + (p[1] - origin_y) * (p[1] - origin_y)

\* bins = np.arange(start_radius, np.max(dist) + bin_width, bin_width) (line
\* 188): start_radius + k * bin_width for as long as it is below the stop
\* value, that is, for as long as some pixel is farther than it less bin_width
radial_bins(shape, side, vertical, start_radius, bin_width) ==
    LET below(b) == \/ b - bin_width < 0
                    \/ \E p \in Grid(shape[1], shape[2]) :
                           (b - bin_width) * (b - bin_width) < dist2(p, shape, side, vertical)
        n == Cardinality({ k \in 0 .. shape[1] + shape[2] :
                              below(start_radius + k * bin_width) })
    IN  [ k \in 1 .. n |-> start_radius + (k - 1) * bin_width ]

\* the rings of bins[:-1] that hold a pixel (lines 189-194)
valid_rings(shape, side, vertical, start_radius, bin_width) ==
    LET bins  == radial_bins(shape, side, vertical, start_radius, bin_width)
        any(b) == \E p \in Grid(shape[1], shape[2]) :
                      /\ b * b <= dist2(p, shape, side, vertical)
                      /\ dist2(p, shape, side, vertical) < (b + bin_width) * (b + bin_width)
    IN  SelectSeq(SubSeq(bins, 1, Len(bins) - 1), any)

\* the exception estimate_radial_background raises on an image of this
\* shape, "" when it raises none: np.interp (lines 195-201) raises ValueError
\* when the array of sample points bins[:-1][valid] is empty
estimate_radial_background_raises(shape, side, vertical, start_radius, bin_width) ==
    IF valid_rings(shape, side, vertical, start_radius, bin_width) = << >>
    THEN "ValueError"
    ELSE ""

\* estimate_radial_background(image, side, vertical, start_radius,
\* bin_width) when it raises nothing (lines 183-202)
estimate_radial_background(img, side, vertical, start_radius, bin_width) ==
    [ shape |-> img.shape,
      px |-> <<"estimate_radial_background", img.px, side, vertical, start_radius,
               bin_width>> ]

\* the exception one round of estimates raises on an image of this shape,
\* the square estimate being made first (lines 231-235) or second (lines
\* 224-228)
estimates_raise(shape, a, square_first) ==
    LET square == estimate_square_background_raises(shape, a.tile_size)
        radial == estimate_radial_background_raises(shape, a.side, a.vertical,
                                                    a.start_radius, a.bin_width)
    IN  IF square_first
        THEN IF square # "" THEN square ELSE radial
        ELSE IF radial # "" THEN radial ELSE square

\* a warm start: the estimates an earlier execution left behind are taken as
\* the initial ones
initial_warm(img, a) ==
    IF Len(bg.outputs) > 0
    THEN [ b_square |-> bg.b_square, b_radial |-> bg.b_radial ]
    ELSE [ b_square |-> estimate_square_background(img, a.tile_size),
           b_radial |-> estimate_radial_background(img, a.side, a.vertical,
                                                   a.start_radius, a.bin_width) ]

\* the initial estimates of lines 231-235
initial(img, a) ==
    [ b_square |-> estimate_square_background(img, a.tile_size),
      b_radial |-> estimate_radial_background(img, a.side, a.vertical,
                                              a.start_radius, a.bin_width) ]

\* an update whose square estimate is taken from the image without the
\* radial background of the round before
update_stale_radial(img, a, b) ==
    [ b_square |-> estimate_square_background(minus(img, b.b_radial), a.tile_size),
      b_radial |-> estimate_radial_background(minus(img, b.b_square), a.side,
                                              a.vertical, a.start_radius, a.bin_width) ]

\* an update whose radial estimate is made from what the image keeps once
\* both estimates of the round before are subtracted
update_from_residual(img, a, b) ==
    LET new_b_radial == estimate_radial_background(minus(minus(img, b.b_square), b.b_radial),
                                                   a.side, a.vertical, a.start_radius,
                                                   a.bin_width)
        new_b_square == estimate_square_background(minus(img, new_b_radial), a.tile_size)
    IN  [ b_square |-> new_b_square, b_radial |-> new_b_radial ]

\* update of lines 222-229: the radial estimate of the image without the
\* square background, then the square estimate of the image without the new
\* radial background
update(img, a, b) ==
    LET new_b_radial == estimate_radial_background(minus(img, b.b_square), a.side,
                                                   a.vertical, a.start_radius, a.bin_width)
        new_b_square == estimate_square_background(minus(img, new_b_radial), a.tile_size)
    IN  [ b_square |-> new_b_square, b_radial |-> new_b_radial ]

\* sides of the images given to process_image
BgSides == {4, 5}

\* the arguments of iterative_background_estimation (lines 204-213)
BgTileSizes == {1, 2}

BgBinWidths == {1, 2}

MaxRadius == 7

MaxIterations == 3

\* executions of process_image on the same arguments
MaxRuns == 2

BgArguments ==
    [ side : {"left", "right"}, vertical : {"top", "bottom"},
      iterations : 0 .. MaxIterations, tile_size : BgTileSizes,
      start_radius : 0 .. MaxRadius, bin_width : BgBinWidths ]

InitBackground ==
    /\ NoStores
    /\ seg = << >>
    /\ finished = << >>
    /\ clusters = << >>
    /\ pix_coords = << >>
    /\ fluxes = << >>
    /\ image \in { [ shape |-> <<h, w>>, px |-> <<"image">> ] : h \in BgSides, w \in BgSides }
    /\ \E a \in BgArguments :
           bg = [ args |-> a, round |-> 0, b_square |-> << >>, b_radial |-> << >>,
                  outputs |-> << >> ]
    /\ pc = "process_image"

\* lines 231-235
InitialEstimate ==
    /\ pc = "process_image"
    /\ \E raised \in { estimates_raise(image.shape, bg.args, TRUE) } :
           IF raised # ""
           THEN /\ pc' = raised
                /\ bg' = bg
           ELSE /\ pc' = "reduce"
                /\ bg' = [bg EXCEPT !.round = 0,
                                    !.b_square = initial(image, bg.args).b_square,
                                    !.b_radial = initial(image, bg.args).b_radial]
    /\ UNCHANGED <<image, seg, finished, clusters, pix_coords, fluxes, store_vars>>

\* one step of reduce(update, range(iterations), initial) (line 236)
UpdateRound ==
    /\ pc = "reduce"
    /\ bg.round < bg.args.iterations
    /\ \E raised \in { estimates_raise(image.shape, bg.args, FALSE) } :
           IF raised # ""
           THEN /\ pc' = raised
                /\ bg' = bg
           ELSE /\ pc' = "reduce"
                /\ bg' = [bg EXCEPT !.round = @ + 1,
                                    !.b_square = update(image, bg.args, bg).b_square,
                                    !.b_radial = update(image, bg.args, bg).b_radial]
    /\ UNCHANGED <<image, seg, finished, clusters, pix_coords, fluxes, store_vars>>

\* range(iterations) is exhausted: return b_square + b_radial (line 237) and
\* processed_image = image - background (lines 253-255)
ReturnProcessed ==
    /\ pc = "reduce"
    /\ bg.round >= bg.args.iterations
    /\ pc' = "returned"
    /\ bg' = [bg EXCEPT !.outputs = Append(@, minus(image, plus(bg.b_square, bg.b_radial)))]
    /\ UNCHANGED <<image, seg, finished, clusters, pix_coords, fluxes, store_vars>>

\* another execution of process_image on the same arguments; the locals of
\* the earlier execution are still in memory when it starts
ProcessAgain ==
    /\ pc = "returned"
    /\ Len(bg.outputs) < MaxRuns
    /\ pc' = "process_image"
    /\ UNCHANGED <<image, seg, finished, clusters, pix_coords, fluxes, bg, store_vars>>

NextBackground == InitialEstimate \/ UpdateRound \/ ReturnProcessed \/ ProcessAgain

SpecBackground == InitBackground /\ [][NextBackground]_vars

\* the interpreter runs a started call to its end
SpecBackgroundFair == SpecBackground /\ WF_vars(NextBackground)


\* ------------------------------------------------------------------------
\* Properties
\* ------------------------------------------------------------------------

\* the metadata document of a stored file
DocOf(filename) == CHOOSE d \in Range(metadata) : d.filename = filename

\* the refined labels of the segmentation that own between 1 and 3 pixels
SmallLabels ==
    { lab \in Range(seg) \ {-1} :
        Cardinality({ p \in DOMAIN seg : seg[p] = lab }) < 4 }

\* C1: every Aperture that get_apertures returns, and so every document of
\* the aperture collection, has at least 4 member pixels
C1_MinimumPixels ==
    /\ pc = "returned" => \A i \in DOMAIN clusters : Len(clusters[i].pixels) >= 4
    /\ \A i \in DOMAIN apertures : Len(apertures[i].pixels) >= 4

\* a call that returned an Aperture and dropped a label of 1 to 3 pixels
C1_Witness ==
    /\ pc = "returned"
    /\ clusters # << >>
    /\ SmallLabels # {}

\* an image on which detection finds nothing: no pixel above the threshold,
\* or no cluster of 4 pixels or more
NoSource(filename) ==
    LET img == corrected_ffic[filename]
    IN  \/ filtered_dbscan_raises(img)
        \/ \A found \in get_apertures(DocOf(filename), img) : found = << >>

\* C2: a reference image without any source makes detection end normally
\* with zero Apertures: the run of generate_apertures raises nothing on it
\* and goes on to the remaining files
C2_NoSourceEndsNormally ==
    last.stage = "generate_apertures" =>
        \A i \in DOMAIN last.processed :
            LET f == last.processed[i]
            IN  (f \in DOMAIN corrected_ffic /\ NoSource(f)) =>
                    (last.raised = "" /\ last.processed = last.files)

\* C3: no two documents of the aperture collection carry the same
\* cluster_label
C3_UniqueLabels ==
    \A i, j \in DOMAIN apertures :
        apertures[i].cluster_label = apertures[j].cluster_label => i = j

\* the documents of the aperture collection that come from images of a
\* (camera, CCD) pair
AperturesOfPair(pair) ==
    SelectSeq(apertures,
              LAMBDA aper : group_id(DocOf(aper.cluster_label[1])) = pair)

\* C4: a (camera, CCD) pair that has Apertures never gets more: its
\* documents in the aperture collection stay as they are
C4_CreatedOnce ==
    [][ \A pair \in { group_id(d) : d \in Range(metadata) } :
            AperturesOfPair(pair) # << >> =>
                \A i \in DOMAIN apertures' :
                    group_id(DocOf(apertures'[i].cluster_label[1])) = pair
                        => i \in DOMAIN apertures ]_vars

\* C5: every image generate_apertures works on is the one of smallest
\* DATE-OBS among the images of its (camera, CCD) pair
C5_EarliestReference ==
    last.stage = "generate_apertures" =>
        \A i \in DOMAIN last.processed :
        \A e \in Range(metadata) :
            LET d == DocOf(last.processed[i])
            IN  group_id(e) = group_id(d) =>
                    d.secondary_header["DATE-OBS"] <= e.secondary_header["DATE-OBS"]

\* C6: the cluster_label of every flux document is the cluster_label of a
\* document of the aperture collection
C6_LabelsResolve ==
    \A i \in DOMAIN pixel_files :
        \E j \in DOMAIN apertures :
            apertures[j].cluster_label = pixel_files[i].cluster_label

\* a flux document measured on another image than the one its aperture was
\* detected on
C6_Witness ==
    \E i \in DOMAIN pixel_files :
        pixel_files[i].cluster_label[1] # pixel_source[i]

\* the centroid of the aperture falls on the array of the image: its pixel
\* position lies within [0, NAXIS1 - 1] x [0, NAXIS2 - 1]
InsideImage(aper, doc) ==
    LET h  == doc.secondary_header
        x  == aper.centroid[1]
        y  == aper.centroid[2]
        px == x[1] - h["CRVAL1"] * x[2]
        py == y[1] - h["CRVAL2"] * y[2]
    IN  /\ 0 <= px /\ px <= SKY_SCALE * (h["NAXIS1"] - 1) * x[2]
        /\ 0 <= py /\ py <= SKY_SCALE * (h["NAXIS2"] - 1) * y[2]

\* the labels of a list of documents, in order
LabelsOf(docs) == [ i \in DOMAIN docs |-> docs[i].cluster_label ]

\* C7: for an image, process_metadata_document returns exactly one flux
\* document per Aperture whose centroid lies inside the footprint of the
\* image and none for an Aperture outside of it
C7_FootprintContainment ==
    /\ \A i \in DOMAIN pixel_files :
           \E j \in DOMAIN apertures :
               /\ apertures[j].cluster_label = pixel_files[i].cluster_label
               /\ InsideImage(apertures[j], DocOf(pixel_source[i]))
    /\ \A d \in Range(metadata) :
           d.filename \in DOMAIN corrected_ffic =>
               LET r == process_metadata_document(d, corrected_ffic[d.filename],
                                                  apertures)
               IN  r.raised = "" =>
                       LabelsOf(r.results) =
                           LabelsOf(SelectSeq(apertures,
                                              LAMBDA aper : InsideImage(aper, d)))

\* flux documents were stored for an image whose footprint leaves out one
\* of the Apertures of the collection
C7_Witness ==
    \E i \in DOMAIN pixel_files :
    \E j \in DOMAIN apertures :
        ~InsideImage(apertures[j], DocOf(pixel_source[i]))

\* C8: the flux collection holds at most one document per Aperture and
\* image
C8_OneSamplePerImage ==
    \A i, j \in DOMAIN pixel_files :
        (/\ pixel_files[i].cluster_label = pixel_files[j].cluster_label
         /\ pixel_source[i] = pixel_source[j]) => i = j

\* every rounded coordinate of the call addresses a pixel of the array
CoordsInBounds ==
    \A i \in DOMAIN pix_coords :
        /\ 0 <= np_round(pix_coords[i][1]) /\ np_round(pix_coords[i][1]) < NCols(image)
        /\ 0 <= np_round(pix_coords[i][2]) /\ np_round(pix_coords[i][2]) < NRows(image)

\* C9: a coordinate that rounds to a position outside of the array is
\* caught: compute_fluxes returns sums only when every position is inside
C9_OutOfBoundsDetected ==
    pc = "returned" => CoordsInBounds

\* the pixels of the bounding box of the rounded coordinates, widened by
\* the margin and cut at the edges of the array
ClampedBox ==
    LET xs == { np_round(pix_coords[i][1]) : i \in DOMAIN pix_coords }
        ys == { np_round(pix_coords[i][2]) : i \in DOMAIN pix_coords }
    IN  (Max2(0, SetMin(ys) - BOX_MARGIN)
            .. Min2(NRows(image) - 1, SetMax(ys) + BOX_MARGIN))
        \X (Max2(0, SetMin(xs) - BOX_MARGIN)
            .. Min2(NCols(image) - 1, SetMax(xs) + BOX_MARGIN))

\* C10: mask_flux is the sum of the array over the bounding box of the
\* aperture widened by the margin and clamped to the bounds of the array
\* passed in, minus the in-aperture flux
C10_MaskFluxClampedToImage ==
    (pc = "returned" /\ CoordsInBounds) =>
        fluxes.mask_flux =
            SetSum(image, ClampedBox)
            - SeqSum([ i \in DOMAIN pix_coords |->
                         image[<<np_round(pix_coords[i][2]),
                                 np_round(pix_coords[i][1])>>] ])

\* the number of foreground pixels of the patch of a watershed task
ForegroundCount(task) == Cardinality({ p \in DOMAIN task.patch : task.patch[p] })

\* the number of markers lines 113-117 find in the patch of a task
MarkerCount(task) ==
    LET markers == patch_markers(task.patch)
    IN  SetMax({ markers[p] : p \in DOMAIN task.patch })

\* a patch as one label: 1 on the foreground, 0 on the background
AsOneLabel(task) == [ p \in DOMAIN task.patch |-> IF task.patch[p] THEN 1 ELSE 0 ]

\* the positive labels of a watershed result
PositiveLabels(w) == { w[p] : p \in DOMAIN w } \ {0}

\* the labels the final segmentation gives to the pixels of a task's blob
RefinedLabels(task) ==
    { seg[<<task.row_min + q[1], task.col_min + q[2]>>]
      : q \in { p \in DOMAIN task.patch : task.patch[p] } }

\* C11: watershed_patch returns the patch unchanged as a single label when
\* it has fewer than 8 foreground pixels or a single marker; only a patch of
\* at least 8 foreground pixels with at least 2 markers yields 2 or more
\* positive labels, in the result of the task and in the segmentation
C11_SplitOnlyLargeMultiPeak ==
    /\ pc = "clustered" =>
           \A i \in DOMAIN watershed_tasks(seg) :
               LET t     == watershed_tasks(seg)[i]
                   whole == ForegroundCount(t) < 8 \/ MarkerCount(t) < 2
               IN  \A w \in watershed_patch(t) :
                       /\ whole => w = AsOneLabel(t)
                       /\ Cardinality(PositiveLabels(w)) >= 2 => ~whole
    /\ pc = "relabelled" =>
           \A i \in DOMAIN watershed_tasks(initial_seg(image)) :
               LET t == watershed_tasks(initial_seg(image))[i]
               IN  (ForegroundCount(t) < 8 \/ MarkerCount(t) < 2) =>
                       Cardinality(RefinedLabels(t)) = 1

\* the call has relabelled a blob of 8 pixels or more that has a single
\* marker, and so was kept whole
C11_Witness ==
    /\ pc = "relabelled"
    /\ \E i \in DOMAIN watershed_tasks(initial_seg(image)) :
           LET t == watershed_tasks(initial_seg(image))[i]
           IN  /\ ForegroundCount(t) >= 8
               /\ MarkerCount(t) < 2
               /\ Cardinality(RefinedLabels(t)) = 1

\* ------------------------------------------------------------------------
\* One call of get_apertures on an image of several blobs (specification
\* SpecBlobs)
\* ------------------------------------------------------------------------

\* the images are 3 rows by 6 columns: a wide field of 3 x 3 pixels, an
\* empty column and a narrow field of 2 x 2 pixels, in either order; the
\* narrow field holds a blob of 4 pixels or 3 pixels of noise
BlobShape == <<3, 6>>

WideField == (0 .. 2) \X (0 .. 2)

NarrowField == (0 .. 1) \X (4 .. 5)

\* the pixel facing p from the other side of the array
Mirror(p) == <<p[1], BlobShape[2] - 1 - p[2]>>

BlobImages ==
    UNION { { Bitmap(BlobShape[1], BlobShape[2], wide \cup narrow),
              Bitmap(BlobShape[1], BlobShape[2],
                     { Mirror(p) : p \in wide \cup narrow }) }
            : wide \in SUBSET WideField,
              narrow \in { n \in SUBSET NarrowField : Cardinality(n) >= 3 } }

InitBlobs ==
    /\ image \in BlobImages
    /\ pc = "start"
    /\ seg = << >>
    /\ finished = << >>
    /\ bg = << >>
    /\ clusters = << >>
    /\ pix_coords = << >>
    /\ fluxes = << >>
    /\ NoStores

SpecBlobs == InitBlobs /\ [][NextCall]_vars

\* C12: the new labels of the relabelling loop are all greater than every
\* DBSCAN label, and the blocks of two blobs are disjoint: two pixels that
\* share a label after the loop belonged to the same blob before it
C12_DisjointLabelBlocks ==
    [][ (pc = "clustered" /\ pc' = "relabelled") =>
            /\ \A p \in DOMAIN seg :
                   seg'[p] # seg[p] => seg'[p] > SetMax(Range(seg))
            /\ \A p, q \in DOMAIN seg :
                   (seg'[p] = seg'[q] /\ seg'[p] # -1) => seg[p] = seg[q] ]_vars

\* the call has relabelled two blobs, one of them split in two or more
C12_Witness ==
    /\ pc = "relabelled"
    /\ Len(finished) >= 2
    /\ \E k \in DOMAIN finished :
           Cardinality(PositiveLabels(finished[k].res.ws_result)) >= 2

\* the orders in which the completed tasks could have completed
CompletionOrders(completed) ==
    { order \in [ DOMAIN completed -> Range(completed) ] :
        Range(order) = Range(completed) }

\* C13: the final segmentation does not depend on the order in which the
\* watershed tasks complete: with the same result for every task, every
\* order of completion gives the same label to every pixel
C13_OrderIndependent ==
    pc = "relabelled" =>
        \A order \in CompletionOrders(finished) :
            relabel(initial_seg(image), gather(order)) = seg

\* the call has relabelled two blobs whose tasks completed in the reverse
\* order of their submission
C13_Witness ==
    /\ pc = "relabelled"
    /\ Len(finished) >= 2
    /\ finished[1].index > finished[2].index

\* C14: a CCD value outside of 1..4 fails its image only: a run of the
\* background stage ends without an exception, and every selected image of
\* a valid CCD is uploaded and has its status reported
C14_InvalidCcdIsolated ==
    last.stage = "preprocess_photometric" =>
        /\ last.raised = ""
        /\ \A i \in DOMAIN last.files :
               ~get_ccd_position_raises(DocOf(last.files[i]).secondary_header["CCD"])
                   => /\ last.files[i] \in DOMAIN corrected_ffic
                      /\ last.files[i] \in Range(last.processed)

\* C15: a failure on one image of the flux stage affects that image only:
\* after a run, the collection holds the flux documents of every image that
\* process_metadata_document handles without an error
C15_FailureIsolatedPerImage ==
    last.stage = "generate_astroseismic_signal" =>
        \A d \in Range(metadata) :
            d.filename \in DOMAIN corrected_ffic =>
                LET r == process_metadata_document(d, corrected_ffic[d.filename],
                                                   apertures)
                IN  r.raised = "" =>
                        \A i \in DOMAIN r.results :
                            \E k \in DOMAIN pixel_files :
                                /\ pixel_files[k] = r.results[i]
                                /\ pixel_source[k] = d.filename

\* the orders in which the documents of a collection can be walked
WalkOrders(coll) ==
    { order \in [ DOMAIN coll -> Range(coll) ] : Range(order) = Range(coll) }

\* C19: whenever the flux stage has run, walking the images in any other
\* order over the same corrected images and aperture collection would have
\* produced the same set of flux documents, and a light curve served by
\* /curated lists its samples in non-decreasing obs_timestamp order
C19_OrderFromTimestamps ==
    /\ last.stage = "generate_astroseismic_signal" =>
       \A order \in WalkOrders(metadata) :
           Range(signal_loop(order, corrected_ffic, apertures,
                             [ results |-> << >>, sources |-> << >> ],
                             << >>).batch_results)
           = Range(signal_loop(metadata, corrected_ffic, apertures,
                               [ results |-> << >>, sources |-> << >> ],
                               << >>).batch_results)
    /\ (last.stage = "curated" /\ last.raised = "") =>
           \A j, k \in DOMAIN last.processed :
               j < k => last.processed[j] <= last.processed[k]

\* a light curve was served for a label whose samples were inserted in
\* another order than that of their timestamps
C19_Witness ==
    /\ last.stage = "curated"
    /\ last.raised = ""
    /\ \E i, j \in DOMAIN pixel_files :
           /\ i < j
           /\ pixel_files[i].cluster_label = last.files[1]
           /\ pixel_files[j].cluster_label = last.files[1]
           /\ pixel_files[i].obs_timestamp > pixel_files[j].obs_timestamp

\* C20: the aperture collection and the flux collection only grow: every
\* document present before a step is present, at the same place and with
\* the same fields, after it
C20_StoresOnlyGrow ==
    [][ /\ \A i \in DOMAIN apertures :
               i \in DOMAIN apertures' /\ apertures'[i] = apertures[i]
        /\ \A i \in DOMAIN pixel_files :
               i \in DOMAIN pixel_files' /\ pixel_files'[i] = pixel_files[i] ]_vars

\* a run of the flux stage that found documents of an earlier run in the
\* collection and failed on an image
C20_Witness ==
    /\ last.stage = "generate_astroseismic_signal"
    /\ last.raised # ""
    /\ pixel_files # << >>
    /\ apertures # << >>

\* ------------------------------------------------------------------------
\* Background estimation: properties
\* ------------------------------------------------------------------------

\* every pixel of the image is closer to the corner of the optical centre
\* than start_radius
BelowStartRadius ==
    \A p \in Grid(image.shape[1], image.shape[2]) :
        dist2(p, image.shape, bg.args.side, bg.args.vertical)
            < bg.args.start_radius * bg.args.start_radius

SquareEstimated == estimate_square_background_raises(image.shape, bg.args.tile_size) = ""

\* C16: when every pixel lies below the start radius, so that no radial ring
\* holds a pixel, the radial estimate raises no error and is the median of
\* the whole image at every pixel
C16_EmptyRingsGiveMedian ==
    (BelowStartRadius /\ SquareEstimated /\ pc # "process_image")
        => /\ pc # "ValueError"
           /\ bg.b_radial = [ shape |-> image.shape, px |-> <<"median", image.px>> ]

\* the estimates after k rounds, as the recurrence of the two estimators
RECURSIVE SquareAt(_, _, _), RadialAt(_, _, _)
SquareAt(img, a, k) ==
    IF k = 0
    THEN estimate_square_background(img, a.tile_size)
    ELSE estimate_square_background(minus(img, RadialAt(img, a, k)), a.tile_size)

RadialAt(img, a, k) ==
    IF k = 0
    THEN estimate_radial_background(img, a.side, a.vertical, a.start_radius,
                                    a.bin_width)
    ELSE estimate_radial_background(minus(img, SquareAt(img, a, k - 1)), a.side,
                                    a.vertical, a.start_radius, a.bin_width)

ReturnedAfterAllRounds ==
    /\ pc = "returned"
    /\ bg.round = bg.args.iterations
    /\ bg.outputs[Len(bg.outputs)] =
           minus(image, plus(SquareAt(image, bg.args, bg.args.iterations),
                             RadialAt(image, bg.args, bg.args.iterations)))

\* C17: once the initial estimates are made, the iteration always ends,
\* after exactly `iterations` rounds of update, and the image returned is the
\* input minus the sum of the square and radial estimates of the last round
C17_TerminatesAfterIterations ==
    (pc = "reduce") ~> ReturnedAfterAllRounds

C17_Witness ==
    /\ ReturnedAfterAllRounds
    /\ bg.args.iterations >= 2

Pointings == { <<0, 0>>, <<3, -2>> }

\* the metadata document of the call, pointed at (crval1, crval2)
PointedDoc(crval) ==
    [ CallDoc EXCEPT !.secondary_header =
        Header(1, 1, 1, CallShape[2], CallShape[1], crval[1], crval[2]) ]

RECURSIVE RoundsFrom(_, _, _, _)
RoundsFrom(img, a, b, k) ==
    IF k = 0 THEN b ELSE RoundsFrom(img, a, update(img, a, b), k - 1)

\* an array that is no estimate of the image
Unrelated == [ shape |-> image.shape, px |-> <<"unrelated">> ]

\* C22: every round takes the radial estimate from the image minus the
\* square estimate of the round before and the square estimate from the image
\* minus that new radial estimate; the radial estimate of the round before is
\* not read, so that with one round or more the image returned is the one the
\* rounds give from any other initial radial estimate
C22_RoundReadsSquareOnly ==
    [][ /\ (pc = "reduce" /\ pc' = "reduce") =>
              /\ bg'.b_radial =
                     estimate_radial_background(minus(image, bg.b_square), bg.args.side,
                                                bg.args.vertical, bg.args.start_radius,
                                                bg.args.bin_width)
              /\ bg'.b_square =
                     estimate_square_background(minus(image, bg'.b_radial),
                                                bg.args.tile_size)
        /\ (pc = "reduce" /\ pc' = "returned" /\ bg.args.iterations >= 1) =>
              LET other == RoundsFrom(image, bg.args,
                                      [ b_square |-> initial(image, bg.args).b_square,
                                        b_radial |-> Unrelated ],
                                      bg.args.iterations)
              IN  bg'.outputs[Len(bg'.outputs)] =
                      minus(image, plus(other.b_square, other.b_radial)) ]_vars

\* a round has replaced the initial estimates
C22_Witness ==
    /\ pc = "reduce"
    /\ bg.round >= 1
    /\ bg.b_radial # initial(image, bg.args).b_radial

\* ------------------------------------------------------------------------
\* tile_mode (preprocess_photometric.py) in floating-point arithmetic
\* ------------------------------------------------------------------------

\* The floats of the model are binary floating-point numbers with a
\* significand of FLOAT_BITS bits, rounded to nearest, ties to even, as those
\* of numpy are with 24 or 53 bits.  A float is written as the integer number
\* of steps of 2^-GRID_BITS it is worth (1.0 is Pow2(GRID_BITS)); that step is
\* the smallest difference between two floats.
FLOAT_BITS == 4

GRID_BITS == 10

\* the spacing of the floats around |a / den|
RECURSIVE UlpOf(_, _, _)
UlpOf(a, den, u) ==
    IF a >= den * u * Pow2(FLOAT_BITS) THEN UlpOf(a, den, 2 * u) ELSE u

\* the integer nearest to a / d, halves going to the even one
RoundHalfEven(a, d) ==
    LET q == a \div d
        r == a % d
    IN  IF 2 * r < d THEN q
        ELSE IF 2 * r > d THEN q + 1
        ELSE IF q % 2 = 0 THEN q ELSE q + 1

\* the float nearest to num / den
fl_round(num, den) ==
    LET a == Abs(num)
        u == UlpOf(a, den, 1)
        m == RoundHalfEven(a, den * u) * u
    IN  IF num < 0 THEN 0 - m ELSE m

fl_add(x, y) == fl_round(x + y, 1)

fl_sub(x, y) == fl_round(x - y, 1)

fl_mul(x, y) == fl_round(x * y, Pow2(GRID_BITS))

\* the largest r in lo .. hi - 1 with r * r <= n
RECURSIVE ISqrt(_, _, _)
ISqrt(n, lo, hi) ==
    IF hi - lo <= 1 THEN lo
    ELSE LET mid == (lo + hi) \div 2
         IN  IF mid * mid <= n THEN ISqrt(n, mid, hi) ELSE ISqrt(n, lo, mid)

\* np.sqrt of a non-negative float
fl_sqrt(x) ==
    LET n   == x * Pow2(GRID_BITS)
        r   == ISqrt(n, 0, Min2(n + 1, 46341))
        u   == UlpOf(r, 1, 1)
        lo  == (r \div u) * u
        mid == lo + u \div 2
    IN  IF u = 1
        THEN IF n > lo * lo + lo THEN lo + 1 ELSE lo
        ELSE IF n > mid * mid THEN lo + u
        ELSE IF n < mid * mid THEN lo
        ELSE IF (lo \div u) % 2 = 0 THEN lo ELSE lo + u

\* a Python constant written as the decimal num / den
fl_const(num, den) == fl_round(num * Pow2(GRID_BITS), den)

\* np.sum of fewer than 8 floats: added one after the other
RECURSIVE np_sum_from(_, _)
np_sum_from(acc, s) ==
    IF s = << >> THEN acc ELSE np_sum_from(fl_add(acc, Head(s)), Tail(s))

np_sum(s) == np_sum_from(0, s)

\* np.mean of a non-empty array
np_mean(s) == fl_round(np_sum(s), Len(s))

\* np.sort
RECURSIVE np_sort(_)
np_sort(s) ==
    IF s = << >> THEN << >>
    ELSE LET i == CHOOSE j \in DOMAIN s : \A k \in DOMAIN s : s[j] <= s[k]
         IN  <<s[i]>> \o np_sort(SubSeq(s, 1, i - 1) \o SubSeq(s, i + 1, Len(s)))

\* np.median of a non-empty array: the middle element, or the mean of the
\* two middle ones
np_median(s) ==
    LET sorted == np_sort(s)
        n      == Len(s)
    IN  IF n % 2 = 1 THEN sorted[(n + 1) \div 2]
        ELSE np_mean(<<sorted[n \div 2], sorted[n \div 2 + 1]>>)

\* np.std of a non-empty array: the square root of the mean of the squared
\* differences to the mean
np_std(s) ==
    LET arrmean == np_mean(s)
        x       == [ i \in DOMAIN s |-> fl_sub(s[i], arrmean) ]
    IN  fl_sqrt(np_mean([ i \in DOMAIN s |-> fl_mul(x[i], x[i]) ]))

\* clip_3sigma(tile) (lines 101-113)
clip_3sigma(tile) ==
    LET median_val == np_median(tile)
        std_dev    == np_std(tile)
    IN  SelectSeq(tile, LAMBDA v : Abs(fl_sub(v, median_val))
                                       < fl_mul(3 * Pow2(GRID_BITS), std_dev))

\* the test of line 126: the clipped sample is not empty and its standard
\* deviation is below 0.3 times its median
tile_mode_corrects_skew(tile) ==
    LET clipped == clip_3sigma(tile)
    IN  /\ Len(clipped) # 0
        /\ np_std(clipped) < fl_mul(fl_const(3, 10), np_median(clipped))

\* tile_mode(tile) (lines 115-129)
tile_mode(tile) ==
    LET clipped == clip_3sigma(tile)
    IN  IF tile_mode_corrects_skew(tile)
        THEN fl_sub(fl_mul(fl_const(5, 2), np_median(clipped)),
                    fl_mul(fl_const(3, 2), np_mean(clipped)))
        ELSE np_median(tile)

\* the values of the pixels of a tile: -0.875, 0, 0.5, 0.875, 1 and 1.5
TileValues == { -896, 0, 512, 896, 1024, 1536 }

\* the tiles tile_mode is called on, flattened
TileSizes == {3, 4}

InitTile ==
    /\ image \in UNION { [ 1 .. n -> TileValues ] : n \in TileSizes }
    /\ pc = "tile"
    /\ bg = << >>
    /\ seg = << >>
    /\ finished = << >>
    /\ clusters = << >>
    /\ pix_coords = << >>
    /\ fluxes = << >>
    /\ NoStores

\* one call of tile_mode on the tile; what it returns is kept in bg
TileMode ==
    /\ pc = "tile"
    /\ pc' = "tile_done"
    /\ bg' = [ mode |-> tile_mode(image) ]
    /\ UNCHANGED <<image, seg, finished, clusters, pix_coords, fluxes, store_vars>>

NextTile == TileMode

SpecTile == InitTile /\ [][NextTile]_vars

\* ------------------------------------------------------------------------
\* tile_mode: properties
\* ------------------------------------------------------------------------

ConstantTile == \A i \in DOMAIN image : image[i] = image[1]

\* C23: on a tile whose pixels all have the same value tile_mode does not
\* take the skew-corrected estimate and returns that value, and on any tile
\* on which the test of line 126 fails it returns the median of the tile
C23_ConstantTileGivesMedian ==
    pc = "tile_done" =>
        /\ ConstantTile => (~tile_mode_corrects_skew(image) /\ bg.mode = image[1])
        /\ ~tile_mode_corrects_skew(image) => bg.mode = np_median(image)

\* ------------------------------------------------------------------------
\* get_apertures: the pixels of the apertures and of the segmentation
\* ------------------------------------------------------------------------

\* the (row, column) pixels of the image that a returned cluster lists
PixelsOfCluster(c) ==
    Range(indexed_pixels(image, all_world2pix(CallDoc.secondary_header, c.pixels)))

\* the pixels above the threshold that DBSCAN left without a cluster
NoisePixels ==
    LET labels == filtered_dbscan(image)
    IN  { p \in DOMAIN labels : labels[p] = -1 }

LeftUnlabelled(results, k, z) ==
    [ results EXCEPT ![k].ws_result[z] = 0 ]

\* the pixel of the image at the index z of the patch of res
PatchPixel(res, z) == <<res.row_min + z[1], res.col_min + z[2]>>

\* C27: after the relabelling loop every pixel above the threshold that
\* DBSCAN put in a cluster carries a label other than -1, and two such pixels
\* share a label only if DBSCAN put them in the same blob; had the watershed
\* left a pixel of a blob at 0, that pixel would keep the DBSCAN label of
\* its blob, which no pixel of another blob carries
C27_EveryPixelLabelled ==
    pc = "relabelled" =>
        LET first   == initial_seg(image)
            kept    == { p \in DOMAIN first : first[p] # -1 }
            results == gather(finished)
        IN  /\ \A p \in kept : seg[p] # -1
            /\ \A p, q \in kept : seg[p] = seg[q] => first[p] = first[q]
            /\ \A k \in DOMAIN results :
               \A z \in DOMAIN results[k].ws_result :
                   results[k].ws_result[z] > 0 =>
                       LET left == relabel(first, LeftUnlabelled(results, k, z))
                           p    == PatchPixel(results[k], z)
                       IN  /\ left[p] = first[p]
                           /\ \A q \in kept :
                                  /\ left[q] # -1
                                  /\ left[q] = left[p] => first[q] = first[p]

\* the loop has relabelled two blobs, one of them split by the watershed
\* into two or more parts
C27_Witness ==
    /\ pc = "relabelled"
    /\ Len(finished) = 2
    /\ \E k \in DOMAIN finished :
           /\ finished[k].index = 2
           /\ Cardinality(PositiveLabels(finished[k].res.ws_result)) >= 2

\* ------------------------------------------------------------------------
\* get_apertures on images of two blobs whose bounding boxes overlap: a hook
\* of two rows and a column, wide enough to be split, and in the corner it
\* leaves free a block that is a blob of 4 pixels or 3 pixels of noise
\* ------------------------------------------------------------------------

NestedShape == <<5, 4>>

HookField == ((3 .. 4) \X (0 .. 3)) \cup { <<1, 0>>, <<2, 0>> }

BlockField == (0 .. 1) \X (2 .. 3)

NestedImages ==
    { Bitmap(NestedShape[1], NestedShape[2], hook \cup block)
      : hook \in { h \in SUBSET HookField : Cardinality(HookField \ h) <= 1 },
        block \in { b \in SUBSET BlockField : Cardinality(b) >= 3 } }

InitNested ==
    /\ image \in NestedImages
    /\ pc = "start"
    /\ seg = << >>
    /\ finished = << >>
    /\ bg = << >>
    /\ clusters = << >>
    /\ pix_coords = << >>
    /\ fluxes = << >>
    /\ NoStores

SpecNested == InitNested /\ [][NextCall]_vars

\* the pixels DBSCAN gave the i-th of its labels, the blob of the i-th task
BlobOf(first, i) ==
    LET unique_labels == SortedSeq({ first[p] : p \in DOMAIN first } \ {-1})
    IN  { p \in DOMAIN first : first[p] = unique_labels[i] }

\* the pixels of the image inside the bounding box of res
InBox(res) ==
    { p \in DOMAIN image : /\ res.row_min <= p[1] /\ p[1] < res.row_max
                           /\ res.col_min <= p[2] /\ p[2] < res.col_max }

\* C28: writing the watershed result of one blob into the segmentation
\* changes no pixel outside that blob, whichever results were written before
\* it: in every order of applying the results, every round of the loop
\* leaves the pixels of the other blobs, the noise and the background as
\* they were
C28_WriteBackInsideBlob ==
    pc = "relabelled" =>
        LET first == initial_seg(image)
            start == [ seg |-> first,
                       new_label |-> SetMax({ first[p] : p \in DOMAIN first }) + 1 ]
        IN  \A order \in CompletionOrders(finished) :
            \A n \in DOMAIN order :
                LET before == relabel_loop(start,
                                  gather_as_completed(SubSeq(order, 1, n - 1)))
                    after  == relabel_step(before, order[n].res)
                IN  \A p \in DOMAIN first \ BlobOf(first, order[n].index) :
                        after.seg[p] = before.seg[p]

\* the loop has written back a blob that the watershed split and whose
\* bounding box holds pixels of another blob and pixels of the background
C28_Witness ==
    /\ pc = "relabelled"
    /\ \E k \in DOMAIN finished :
           LET first == initial_seg(image)
               inside == InBox(finished[k].res) \ BlobOf(first, finished[k].index)
           IN  /\ Cardinality(PositiveLabels(finished[k].res.ws_result)) >= 2
               /\ \E p \in inside : first[p] >= 0
               /\ \E p \in inside : p \notin high_intensity_pixels(image)

\* ------------------------------------------------------------------------
\* process_single_ffi, one call: download, crop, process_image, pad, upload.
\* Arrays are terms with a shape, as in the background iteration; the raw
\* file of the call is `image`, the locals of the call are in `bg`.
\* ------------------------------------------------------------------------

\* raw_image[:-30, 44:-44] (line 309): a slice that begins at row 0 and
\* column 44; a side shorter than what is stripped leaves an empty slice
crop_buffer(raw_image) ==
    [ shape |-> << Max2(raw_image.shape[1] - 30, 0),
                   Max2(raw_image.shape[2] - 44 - 44, 0) >>,
      px |-> <<"slice", raw_image.px, 0, 44>> ]

\* np.pad(processed_image, ((0, 30), (44, 44))) padding the top instead of
\* the bottom
np_pad_before(processed_image) ==
    [ shape |-> << processed_image.shape[1] + 30,
                   44 + processed_image.shape[2] + 44 >>,
      px |-> <<"pad", processed_image.px, processed_image.shape, 30, 44>> ]

\* np.pad(processed_image, ((0, 30), (44, 44))) (line 311): zeros after the
\* last row and on both sides of the columns, the array placed at row 0 and
\* column 44
np_pad(processed_image) ==
    [ shape |-> << 0 + processed_image.shape[1] + 30,
                   44 + processed_image.shape[2] + 44 >>,
      px |-> <<"pad", processed_image.px, processed_image.shape, 0, 44>> ]

\* the arguments process_image gives iterative_background_estimation (line
\* 253): the side and the vertical position and the defaults of line 206,
\* scaled to images of a few pixels
ProcessImageArguments(side, vertical) ==
    [ side |-> side, vertical |-> vertical, iterations |-> 3,
      tile_size |-> 1, start_radius |-> 3, bin_width |-> 1 ]

\* the exception process_image raises on an image of this shape, "" when it
\* raises none
process_image_raises(shape, a) ==
    LET first == estimates_raise(shape, a, TRUE)
    IN  IF first # "" THEN first
        ELSE IF a.iterations > 0 THEN estimates_raise(shape, a, FALSE)
        ELSE ""

\* process_image(image, side, vertical) when it raises nothing (lines
\* 253-255)
process_image(img, a) ==
    LET b == RoundsFrom(img, a, initial(img, a), a.iterations)
    IN  minus(img, plus(b.b_square, b.b_radial))

RECURSIVE PixelAt(_, _)
\* the element at the index p of the array px: the pixel of the raw file it
\* was taken from, the zero of the padding, or a difference whose first
\* operand is such an element
PixelAt(px, p) ==
    CASE px[1] = "raw"   -> <<"raw", p>>
      [] px[1] = "slice" -> PixelAt(px[2], <<p[1] + px[3], p[2] + px[4]>>)
      [] px[1] = "pad"   ->
             LET q == <<p[1] - px[4], p[2] - px[5]>>
             IN  IF q \in Grid(px[3][1], px[3][2])
                 THEN PixelAt(px[2], q)
                 ELSE <<"zero">>
      [] px[1] = "minus" -> <<"minus", PixelAt(px[2], p)>>

\* shapes of the raw files: sides shorter than, equal to and longer than
\* what line 309 strips
RawHeights == {20, 30, 33, 34, 35}

RawWidths == {60, 88, 92, 93}

\* outcomes of a call of the storage client: it returns, raises ClientError,
\* or raises another exception (an endpoint that cannot be reached, a file
\* that is no FITS file)
StorageOutcomes == {"ok", "ClientError", "Exception"}

InitFfi ==
    /\ NoStores
    /\ seg = << >>
    /\ finished = << >>
    /\ clusters = << >>
    /\ pix_coords = << >>
    /\ fluxes = << >>
    /\ image \in { [ shape |-> <<h, w>>, px |-> <<"raw">> ] :
                   h \in RawHeights, w \in RawWidths }
    /\ \E ccd \in 1 .. 5 :
           bg = [ ccd |-> ccd, downloads |-> 0, uploads |-> 0, outcome |-> "",
                  status |-> "", processed_image |-> << >> ]
    /\ pc = "process_single_ffi"

\* a download that is tried again after ClientError
download_result_retrying(outcome) ==
    CASE outcome = "ok"          -> [ pc |-> "downloaded", status |-> "" ]
      [] outcome = "ClientError" -> [ pc |-> "process_single_ffi", status |-> "" ]
      [] outcome = "Exception"   -> [ pc |-> "Exception", status |-> "" ]

\* lines 302-305: download_fits_from_s3 raises again what download_fileobj
\* raised (lines 67-70); process_single_ffi returns a message on ClientError
\* and lets any other exception through
download_result(outcome) ==
    CASE outcome = "ok"          -> [ pc |-> "downloaded", status |-> "" ]
      [] outcome = "ClientError" -> [ pc |-> "returned", status |-> "Error downloading" ]
      [] outcome = "Exception"   -> [ pc |-> "Exception", status |-> "" ]

\* lines 314-318: upload_processed_image_to_s3 raises again what
\* upload_fileobj raised (lines 96-98); process_single_ffi returns a message
\* on success and on ClientError and lets any other exception through
upload_result(outcome) ==
    CASE outcome = "ok"          -> [ pc |-> "returned", status |-> "Processed" ]
      [] outcome = "ClientError" -> [ pc |-> "returned", status |-> "Error uploading" ]
      [] outcome = "Exception"   -> [ pc |-> "Exception", status |-> "" ]

\* lines 302-305: one call of download_fileobj (line 62)
DownloadFits ==
    /\ pc = "process_single_ffi"
    /\ \E outcome \in StorageOutcomes :
           /\ bg' = [bg EXCEPT !.downloads = @ + 1,
                               !.outcome = outcome,
                               !.status = download_result(outcome).status]
           /\ pc' = download_result(outcome).pc
    /\ UNCHANGED <<image, seg, finished, clusters, pix_coords, fluxes, store_vars>>

\* lines 307-312: get_ccd_position, the crop, process_image, the padding
ProcessFfi ==
    /\ pc = "downloaded"
    /\ IF get_ccd_position_raises(bg.ccd)
       THEN pc' = "ValueError" /\ bg' = bg
       ELSE \E a \in { ProcessImageArguments(get_ccd_position(bg.ccd)[1],
                                             get_ccd_position(bg.ccd)[2]) } :
            \E raised \in { process_image_raises(crop_buffer(image).shape, a) } :
                IF raised # ""
                THEN pc' = raised /\ bg' = bg
                ELSE /\ pc' = "processed"
                     /\ bg' = [bg EXCEPT !.processed_image =
                                   np_pad(process_image(crop_buffer(image), a))]
    /\ UNCHANGED <<image, seg, finished, clusters, pix_coords, fluxes, store_vars>>

\* lines 314-318: one call of upload_fileobj (line 92)
UploadProcessed ==
    /\ pc = "processed"
    /\ \E outcome \in StorageOutcomes :
           /\ bg' = [bg EXCEPT !.uploads = @ + 1,
                               !.outcome = outcome,
                               !.status = upload_result(outcome).status]
           /\ pc' = upload_result(outcome).pc
           /\ corrected_ffic' = IF outcome = "ok"
                                THEN [ f \in {"ffi"} |-> bg.processed_image ]
                                ELSE corrected_ffic
    /\ UNCHANGED <<image, seg, finished, clusters, pix_coords, fluxes>>
    /\ UNCHANGED <<metadata, raw_ffic, apertures, pixel_files, pixel_source, last>>

NextFfi == DownloadFits \/ ProcessFfi \/ UploadProcessed

SpecFfi == InitFfi /\ [][NextFfi]_vars

\* C25: the array process_single_ffi stores has the shape of the raw image;
\* its element at an index inside the crop (before the last 30 rows, between
\* the first and the last 44 columns) is the background-subtracted pixel of
\* the raw image at that same index, and every other element is zero
C25_CorrectedAlignedWithRaw ==
    \A f \in DOMAIN corrected_ffic :
        LET corrected == corrected_ffic[f]
            h == image.shape[1]
            w == image.shape[2]
        IN  /\ corrected.shape = image.shape
            /\ \A p \in Grid(h, w) :
                   PixelAt(corrected.px, p) =
                       IF p[1] < h - 30 /\ 44 <= p[2] /\ p[2] < w - 44
                       THEN <<"minus", <<"raw", p>>>>
                       ELSE <<"zero">>

\* a processed array has been stored for a raw image of 35 rows and 93
\* columns
C25_Witness ==
    /\ pc = "returned"
    /\ bg.status = "Processed"
    /\ DOMAIN corrected_ffic # {}
    /\ image.shape = <<35, 93>>

\* C26: process_single_ffi calls the download at most once and the upload at
\* most once for its image, and when the storage call raises ClientError it
\* returns an error message, of the download or of the upload, and raises
\* nothing; after a failed download no upload is tried
C26_OneAttemptEach ==
    /\ bg.downloads <= 1
    /\ bg.uploads <= 1
    /\ bg.outcome = "ClientError" =>
           /\ pc = "returned"
           /\ bg.status = IF bg.uploads = 0 THEN "Error downloading"
                          ELSE "Error uploading"
    /\ bg.status = "Error downloading" => bg.uploads = 0 /\ corrected_ffic = << >>

\* the call has returned the message of a failed upload after one download
\* and one upload
C26_Witness ==
    /\ pc = "returned"
    /\ bg.outcome = "ClientError"
    /\ bg.status = "Error uploading"
    /\ bg.downloads = 1
    /\ bg.uploads = 1

\* C29: in a run of the pipeline, where generate_apertures starts once
\* preprocess_photometric has ended without an exception, every image
\* handed to get_apertures has a corrected array in the corrected bucket
C29_CorrectedBeforeApertures ==
    [][ ( /\ last.stage = "preprocess_photometric"
          /\ last.raised = ""
          /\ last'.stage = "generate_apertures" ) =>
            \A i \in DOMAIN last'.processed :
                last'.processed[i] \in DOMAIN corrected_ffic ]_vars

\* ------------------------------------------------------------------------
\* download_fits (build/unpack_to_raw.py; dataset/download.py has the same
\* loop without the test of line 37): the URLs of the input file one after
\* the other, each with its retry loop.  The locals are in `bg`.
\* ------------------------------------------------------------------------

\* number of URLs in the input file
MaxUrls == 2

\* attempts on one URL after which the model stops following the loop
MaxAttempts == 8

\* what one pass through the try block can do: the file is written; or
\* requests.get raises (no connection) and `response` keeps its value; or
\* raise_for_status or iter_content raises with `response` assigned
RequestOutcomes == {"ok", "ConnectionError", "HTTPError"}

\* the loop condition of line 44
loop_continues(b) == b.response = "None" \/ b.cpt = 5

\* one pass through the body of the loop (lines 45-60)
attempt(b, outcome) ==
    IF outcome = "ok"
    THEN [b EXCEPT !.response = "Response",
                   !.attempts = @ + 1,
                   !.log = Append(@, <<"SUCCESS", b.url>>)]
    ELSE [b EXCEPT !.response = IF outcome = "HTTPError" THEN "Response" ELSE @,
                   !.attempts = @ + 1,
                   !.cpt = @ + 1,
                   !.sleep_time = @ * 2,
                   !.log = IF b.cpt + 1 = 5 THEN Append(@, <<"ERROR", b.url>>) ELSE @]

InitDownload ==
    /\ NoStores
    /\ image = << >>
    /\ seg = << >>
    /\ finished = << >>
    /\ clusters = << >>
    /\ pix_coords = << >>
    /\ fluxes = << >>
    /\ bg = [ url |-> 0, response |-> "None", attempts |-> 0, cpt |-> 0,
              sleep_time |-> 1, log |-> << >> ]
    /\ pc = "for"

\* lines 29-43: the next line of the input file; a file that is already in
\* the download folder is skipped, else the locals of the loop are reset
NextUrl ==
    /\ pc = "for"
    /\ bg.url < MaxUrls
    /\ \E exists \in BOOLEAN :
           IF exists
           THEN /\ bg' = [bg EXCEPT !.url = @ + 1,
                                    !.log = Append(@, <<"SKIP", bg.url + 1>>)]
                /\ pc' = "for"
           ELSE /\ bg' = [bg EXCEPT !.url = @ + 1, !.response = "None",
                                    !.attempts = 0, !.cpt = 0, !.sleep_time = 1]
                /\ pc' = "while"
    /\ UNCHANGED <<image, seg, finished, clusters, pix_coords, fluxes, store_vars>>

\* lines 44-60: the condition holds and the body runs once
Attempt ==
    /\ pc = "while"
    /\ loop_continues(bg)
    /\ bg.attempts < MaxAttempts
    /\ \E outcome \in RequestOutcomes : bg' = attempt(bg, outcome)
    /\ UNCHANGED <<image, pc, seg, finished, clusters, pix_coords, fluxes, store_vars>>

\* line 44: the condition fails and the loop over the URLs goes on
LeaveLoop ==
    /\ pc = "while"
    /\ ~loop_continues(bg)
    /\ pc' = "for"
    /\ UNCHANGED <<image, seg, finished, clusters, pix_coords, fluxes, bg, store_vars>>

\* line 62: the input file is exhausted
DownloadCompleted ==
    /\ pc = "for"
    /\ bg.url = MaxUrls
    /\ pc' = "completed"
    /\ UNCHANGED <<image, seg, finished, clusters, pix_coords, fluxes, bg, store_vars>>

NextDownload == NextUrl \/ Attempt \/ LeaveLoop \/ DownloadCompleted

SpecDownload == InitDownload /\ [][NextDownload]_vars

\* C30: the retry loop of a URL stops after a success or after 5 failed
\* attempts at the latest: the body of the loop is never entered again once
\* the file was written or 5 attempts have failed
C30_StopsWithinFiveFailures ==
    [][ (pc = "while" /\ bg'.attempts = bg.attempts + 1) =>
            /\ bg.cpt < 5
            /\ \A i \in DOMAIN bg.log : bg.log[i] # <<"SUCCESS", bg.url>> ]_vars

=============================================================================
